---- MODULE Spec2Model ----
(***************************************************************************)
(* The by-move coroutine body pass (ByMoveBody::run_pass) and the place    *)
(* rewriting visitor it drives (MakeByMoveBody), as a state machine.       *)
(*                                                                         *)
(* One run of run_pass is one behaviour: the inputs (the two capture       *)
(* lists, the number of closure arguments, the body with its capture       *)
(* struct local) are fixed by Init, the actions are the steps of run_pass. *)
(***************************************************************************)
EXTENDS Naturals, Sequences, FiniteSets, TLC

VARIABLES
    parent_captures,    \* tcx.closure_captures(parent_def_id)
    child_captures,     \* tcx.closure_captures(coroutine_def_id), arguments first
    num_args,           \* number of inputs of the coroutine-closure signature
    tcx_coroutine_kind, \* tcx.coroutine_kind(coroutine_def_id)
    body,               \* the mir::Body of the coroutine, with its by_move_body slot
    target,             \* which body run_pass is given: "body" or "by_move_body"
    invocations,        \* number of calls of run_pass so far, the current one included
    mir,                \* the Mir a Visitor of librustc/mir/visit.rs is walking
    overridden,         \* the visit_X method the Visitor overrides, "none" for none
    stack,              \* the calls of visit_X methods made and not yet begun
    trace,              \* the calls of visit_X methods begun so far, in order
    pc,                 \* position inside run_pass
    coroutine_kind,     \* local coroutine_kind of run_pass
    parent_pos,         \* number of items taken from the Peekable parent_captures
    child_pos,          \* number of items taken from the child iterator (after skip)
    field_used_at_least_once,
    field_remapping,    \* UnordMap<FieldIdx, (FieldIdx, Ty, bool, &[Projection])>
    by_move_body,       \* the clone being rewritten
    visit_pos,          \* number of places of the clone already visited
    failure             \* which bug!/assert! ended the pass, "none" otherwise

vars == <<parent_captures, child_captures, num_args, tcx_coroutine_kind, body, pc,
          coroutine_kind, parent_pos, child_pos, field_used_at_least_once,
          field_remapping, by_move_body, visit_pos, failure, target, invocations,
          mir, overridden, stack, trace>>

inputs == <<parent_captures, child_captures, num_args, tcx_coroutine_kind>>

call == <<target, invocations>>

\* The state of run_pass and the state of a Visitor of the older MIR
pass_vars == <<inputs, call, body, pc, coroutine_kind, parent_pos, child_pos,
               field_used_at_least_once, field_remapping, by_move_body, visit_pos,
               failure>>
visitor_vars == <<mir, overridden, stack, trace>>

----------------------------------------------------------------------------
(* Bounds of the model. *)

MaxParents == 2
MaxChildren == 2
MaxPlaces == 1
MaxInvocations == 2
MaxBlocks == 2
MaxStatements == 2
MaxDepth == 2

----------------------------------------------------------------------------
(* Data: types, capture places, MIR places. *)

\* ty::CAPTURE_STRUCT_LOCAL
CAPTURE_STRUCT_LOCAL == 1

None == [tag |-> "None"]

\* hir::place::ProjectionKind
KDeref == [tag |-> "Deref", idx |-> 0, variant |-> 0]
KField(i, v) == [tag |-> "Field", idx |-> i, variant |-> v]
KIndex == [tag |-> "Index", idx |-> 0, variant |-> 0]

\* The type of the place var.kinds (Place::ty: the type of the last projection,
\* or of the base).
PlaceTy(var, kinds) == [tag |-> "Place", var |-> var, path |-> kinds]

\* Ty::new_ref
Ty_new_ref(ty, mutbl) == [tag |-> "Ref", mutbl |-> mutbl, inner |-> ty]

\* hir::place::Projection { ty, kind } of every step of the path var.kinds
MkProjections(var, kinds) ==
    [i \in 1..Len(kinds) |-> [kind |-> kinds[i], ty |-> PlaceTy(var, SubSeq(kinds, 1, i))]]

\* ty::CapturedPlace: place { base: Upvar(var), projections }, info.capture_kind
MkCapture(var, kinds, mode) ==
    [base |-> "Upvar", var |-> var, projections |-> MkProjections(var, kinds),
     base_ty |-> PlaceTy(var, <<>>), capture_kind |-> mode]

\* CapturedPlace::is_by_ref
is_by_ref(capture) == capture.capture_kind # "ByValue"

\* BorrowKind::to_mutbl_lossy
to_mutbl_lossy(kind) == IF kind = "ImmBorrow" THEN "Not" ELSE "Mut"

\* Place::ty
place_ty(capture) ==
    IF Len(capture.projections) = 0 THEN capture.base_ty
    ELSE capture.projections[Len(capture.projections)].ty

\* mir::ProjectionElem
Deref == [tag |-> "Deref", idx |-> 0, ty |-> None]
Field(i, ty) == [tag |-> "Field", idx |-> i, ty |-> ty]
Index(l) == [tag |-> "Index", idx |-> l, ty |-> None]

\* mir::Place
MkPlace(local, projection) == [local |-> local, projection |-> projection]

\* The coroutine type of the capture struct local: its kind_ty and its upvars.
CoroutineTy(kind, upvars) == [tag |-> "Coroutine", kind |-> kind, upvars |-> upvars]

\* A mir::Body: its source, its local declarations, the places its statements and
\* terminators mention (in traversal order) and body.coroutine.by_move_body.
MkBody(source, local_decls, places, alt) ==
    [source |-> source, local_decls |-> local_decls, places |-> places,
     by_move_body |-> alt]

\* mir::MirSource: a local item, or the instance of a shim
ItemSource == [is_local |-> TRUE, instance |-> "Item"]

\* No type taken to hold an error
NeverReferencesError(ty) == FALSE

\* Ty::references_error
references_error(ty) == ty.tag = "Error"

----------------------------------------------------------------------------
(* The capture matching of run_pass. *)

Min(a, b) == IF a <= b THEN a ELSE b

\* The child captures after `.skip(num_args)`
SkipArgs(captures, n) == SubSeq(captures, n + 1, Len(captures))

\* child_prefix_matches_parent_projections: the bug! and assert! that end it
child_prefix_matches_aborts(parent_capture, child_capture) ==
    \/ parent_capture.base # "Upvar"
    \/ child_capture.base # "Upvar"
    \/ ~(Len(child_capture.projections) >= Len(parent_capture.projections))

\* Every child capture taken to match the parent capture under the cursor
MatchesAnyParent(parent_capture, child_capture) == TRUE

\* child_prefix_matches_parent_projections: the value it returns otherwise
child_prefix_matches_parent_projections(parent_capture, child_capture) ==
    /\ parent_capture.var = child_capture.var
    /\ \A i \in 1..Min(Len(child_capture.projections), Len(parent_capture.projections)) :
          child_capture.projections[i].kind = parent_capture.projections[i].kind

\* No match taken to need a dereference
NeverNeedsDeref(parent_capture, child_capture) == FALSE

\* The parent's capture mode left out of needs_deref
NeedsDerefOfChildAlone(parent_capture, child_capture) == is_by_ref(child_capture)

\* needs_deref of a match
NeedsDeref(parent_capture, child_capture) ==
    is_by_ref(child_capture) /\ ~is_by_ref(parent_capture)

\* The reference type always a shared one
SharedRefTy(parent_capture) ==
    IF parent_capture.capture_kind = "ByValue"
    THEN place_ty(parent_capture)
    ELSE Ty_new_ref(place_ty(parent_capture), "Not")

\* The parent's place type wrapped in a reference whatever the capture mode
AlwaysRefTy(parent_capture) ==
    Ty_new_ref(place_ty(parent_capture), to_mutbl_lossy(parent_capture.capture_kind))

\* parent_capture_ty of a match
ParentCaptureTy(parent_capture) ==
    IF parent_capture.capture_kind = "ByValue"
    THEN place_ty(parent_capture)
    ELSE Ty_new_ref(place_ty(parent_capture), to_mutbl_lossy(parent_capture.capture_kind))

\* The whole path of the child instead of what it adds to the parent's path
WholeChildPath(parent_capture, child_capture) == child_capture.projections

\* child_precise_captures of a match
ChildPreciseCaptures(parent_capture, child_capture) ==
    SubSeq(child_capture.projections, Len(parent_capture.projections) + 1,
           Len(child_capture.projections))

\* The value stored in field_remapping for a match
\* The entry of a match with the parent fields counted from the last one
RemapEntryReversed(parent_field_idx, parent_capture, child_capture) ==
    [remapped_idx |-> (Len(parent_captures) - 1 - parent_field_idx) + num_args,
     remapped_ty |-> ParentCaptureTy(parent_capture),
     needs_deref |-> NeedsDeref(parent_capture, child_capture),
     additional_projections |-> ChildPreciseCaptures(parent_capture, child_capture)]

RemapEntry(parent_field_idx, parent_capture, child_capture) ==
    [remapped_idx |-> parent_field_idx + num_args,
     remapped_ty |-> ParentCaptureTy(parent_capture),
     needs_deref |-> NeedsDeref(parent_capture, child_capture),
     additional_projections |-> ChildPreciseCaptures(parent_capture, child_capture)]

\* The key taken from the position after the arguments alone
RemapKeyWithoutArgs(child_field_idx) == child_field_idx

\* The key of field_remapping for a child capture
RemapKey(child_field_idx) == child_field_idx + num_args

\* UnordMap::insert
MapInsert(map, key, value) ==
    [k \in (DOMAIN map) \cup {key} |-> IF k = key THEN value ELSE map[k]]

EmptyMap == [k \in {} |-> None]

Children == SkipArgs(child_captures, num_args)

Abort(why) ==
    /\ pc' = "bug"
    /\ failure' = why

\* The `body` argument of the current call of run_pass
TargetBody == IF target = "body" THEN body ELSE body.by_move_body

\* The early returns of run_pass
ReturnsEarly(source, kind, coroutine_ty) ==
    \/ ~source.is_local
    \/ kind # "DesugaredClosure"
    \/ references_error(coroutine_ty)
    \/ source.instance = "CoroutineKindShim"

\* run_pass up to the matching loop: the early returns, before which it has no
\* locals, and the locals it sets up otherwise
RunPassEnter ==
    /\ pc = "start"
    /\ LET coroutine_ty == TargetBody.local_decls[CAPTURE_STRUCT_LOCAL].ty IN
       IF ReturnsEarly(TargetBody.source, tcx_coroutine_kind, coroutine_ty)
       THEN /\ pc' = "done"
            /\ UNCHANGED <<failure, coroutine_kind, field_remapping, parent_pos,
                           child_pos, field_used_at_least_once>>
       ELSE IF coroutine_ty.tag # "Coroutine"
       THEN /\ Abort("not a coroutine")
            /\ UNCHANGED <<coroutine_kind, field_remapping, parent_pos, child_pos,
                           field_used_at_least_once>>
       ELSE /\ pc' = "matching"
            /\ coroutine_kind' = coroutine_ty.kind
            /\ field_remapping' = EmptyMap
            /\ parent_pos' = 0
            /\ child_pos' = 0
            /\ field_used_at_least_once' = FALSE
            /\ UNCHANGED failure
    /\ UNCHANGED <<visitor_vars, inputs, call, body, by_move_body, visit_pos>>

\* One iteration of the inner `loop` for the current child capture
MatchStep ==
    /\ pc = "matching"
    /\ child_pos < Len(Children)
    /\ LET child_field_idx == child_pos
           child_capture == Children[child_pos + 1]
       IN
       IF parent_pos >= Len(parent_captures)
       THEN /\ Abort("we ran out of parent captures!")
            /\ UNCHANGED <<parent_pos, child_pos, field_used_at_least_once, field_remapping>>
       ELSE
       LET parent_field_idx == parent_pos
           parent_capture == parent_captures[parent_pos + 1]
       IN
       IF child_prefix_matches_aborts(parent_capture, child_capture)
       THEN /\ Abort("child_prefix_matches_parent_projections")
            /\ UNCHANGED <<parent_pos, child_pos, field_used_at_least_once, field_remapping>>
       ELSE IF ~child_prefix_matches_parent_projections(parent_capture, child_capture)
       THEN IF ~field_used_at_least_once
            THEN /\ Abort("captured but not used in the child coroutine")
                 /\ UNCHANGED <<parent_pos, child_pos, field_used_at_least_once,
                                field_remapping>>
            ELSE /\ field_used_at_least_once' = FALSE
                 /\ parent_pos' = parent_pos + 1
                 /\ UNCHANGED <<pc, failure, child_pos, field_remapping>>
       ELSE IF NeedsDeref(parent_capture, child_capture) /\ coroutine_kind = "FnOnce"
       THEN /\ Abort("FnOnce coroutine-closure needs deref")
            /\ UNCHANGED <<parent_pos, child_pos, field_used_at_least_once, field_remapping>>
       ELSE /\ field_remapping' =
                  MapInsert(field_remapping, RemapKey(child_field_idx),
                            RemapEntry(parent_field_idx, parent_capture, child_capture))
            /\ field_used_at_least_once' = TRUE
            /\ child_pos' = child_pos + 1
            /\ UNCHANGED <<pc, failure, parent_pos>>
    /\ UNCHANGED <<visitor_vars, inputs, call, body, coroutine_kind, by_move_body, visit_pos>>

----------------------------------------------------------------------------
(* MakeByMoveBody: the rewriting of the clone. *)

\* The by_move_coroutine_ty run_pass computes: the coroutine as FnOnce, over the
\* parent's upvars
ByMoveCoroutineTy == CoroutineTy("FnOnce", "parent")

\* The condition without its test of the local
IsRemappedAnyLocal(remapping, place) ==
    /\ Len(place.projection) >= 1
    /\ place.projection[1].tag = "Field"
    /\ place.projection[1].idx \in DOMAIN remapping

\* The condition of the `if let` chain of visit_place
IsRemappedPlace(remapping, place) ==
    /\ place.local = CAPTURE_STRUCT_LOCAL
    /\ Len(place.projection) >= 1
    /\ place.projection[1].tag = "Field"
    /\ place.projection[1].idx \in DOMAIN remapping

\* No deref peeled
FinalDerefUnpeeled(needs_deref, projection) == projection

\* final_deref of visit_place: the projections after the leading field, and after
\* the peeled deref when needs_deref is set
FinalDeref(needs_deref, projection) ==
    IF needs_deref THEN Tail(projection) ELSE projection

\* Every projection kind accepted
IsAnyProjection(elem) == TRUE

\* The projection kinds the closure over additional_projections accepts
IsFieldOrDeref(elem) ==
    \/ elem.kind.tag = "Deref"
    \/ elem.kind.tag = "Field" /\ elem.kind.variant = 0

\* The closure mapped over additional_projections
AdditionalProjection(elem) ==
    IF elem.kind.tag = "Deref" THEN Deref ELSE Field(elem.kind.idx, elem.ty)

\* visit_place without its assert_matches!
visit_place_aborts_unasserted(remapping, place) ==
    /\ IsRemappedPlace(remapping, place)
    /\ LET entry == remapping[place.projection[1].idx]
           projection == Tail(place.projection)
       IN
       \/ entry.needs_deref /\ (projection = <<>> \/ projection[1].tag # "Deref")
       \/ \E i \in 1..Len(entry.additional_projections) :
             ~IsFieldOrDeref(entry.additional_projections[i])

\* visit_place: the bug!, assert_matches! and unreachable! that end it
visit_place_aborts(remapping, place) ==
    /\ IsRemappedPlace(remapping, place)
    /\ LET entry == remapping[place.projection[1].idx]
           projection == Tail(place.projection)
           final_deref == FinalDeref(entry.needs_deref, projection)
       IN
       \/ entry.needs_deref /\ (projection = <<>> \/ projection[1].tag # "Deref")
       \/ ~(\/ final_deref = <<>>
            \/ Len(final_deref) = 1 /\ final_deref[1].tag = "Deref")
       \/ \E i \in 1..Len(entry.additional_projections) :
             ~IsFieldOrDeref(entry.additional_projections[i])

\* MutVisitor::super_place with the default visit_local and visit_ty: every part of
\* the place is visited and left as it is
super_place(place) ==
    MkPlace(place.local, [i \in 1..Len(place.projection) |-> place.projection[i]])

\* The remaining projections put before the extra projections
visit_place_suffix_first(remapping, place) ==
    IF IsRemappedPlace(remapping, place)
    THEN LET entry == remapping[place.projection[1].idx]
             final_deref == FinalDeref(entry.needs_deref, Tail(place.projection))
             additional_projections ==
                 [i \in 1..Len(entry.additional_projections) |->
                     AdditionalProjection(entry.additional_projections[i])]
         IN MkPlace(place.local,
                <<Field(entry.remapped_idx, entry.remapped_ty)>>
                    \o final_deref \o additional_projections)
    ELSE place

\* visit_place: the place it leaves behind otherwise
visit_place(remapping, place) ==
    IF IsRemappedPlace(remapping, place)
    THEN LET entry == remapping[place.projection[1].idx]
             projection == Tail(place.projection)
             final_deref == FinalDeref(entry.needs_deref, projection)
             additional_projections ==
                 [i \in 1..Len(entry.additional_projections) |->
                     AdditionalProjection(entry.additional_projections[i])]
         IN super_place(MkPlace(place.local,
                <<Field(entry.remapped_idx, entry.remapped_ty)>>
                    \o additional_projections \o final_deref))
    ELSE super_place(place)

\* The type of every local taken for the by-move coroutine type
visit_every_local_decl(local, local_decl) == [local_decl EXCEPT !.ty = ByMoveCoroutineTy]

\* visit_local_decl
visit_local_decl(local, local_decl) ==
    IF local = CAPTURE_STRUCT_LOCAL
    THEN [local_decl EXCEPT !.ty = ByMoveCoroutineTy]
    ELSE local_decl

\* mir::MirSource::from_instance(InstanceDef::CoroutineKindShim { .. })
ShimSource == [is_local |-> TRUE, instance |-> "CoroutineKindShim"]

\* The leftover check forgotten
NoLeftoverCheck(popped) == FALSE

\* Whether `parent_captures.next()` still yields a capture after the last pop
LeftoverParentCaptures(popped) == popped < Len(parent_captures)

\* The assert_eq! of the FnOnce return forgotten
NoSizeAssert(remapping) == FALSE

\* Whether the assert_eq! of the FnOnce return fails
RemappingSizeMismatch(remapping) ==
    Cardinality(DOMAIN remapping) # Len(parent_captures)

\* The rewritten clone taken for the body itself
RewrittenInPlace(original, clone) == [clone EXCEPT !.by_move_body = clone]

\* body.coroutine.by_move_body = Some(by_move_body)
WithByMoveBody(original, clone) == [original EXCEPT !.by_move_body = clone]

\* The end of the matching: the last parent capture is popped, none may be left;
\* FnOnce returns here, the other kinds clone the body
FinishMatching ==
    /\ pc = "matching"
    /\ child_pos = Len(Children)
    /\ LET popped == IF field_used_at_least_once THEN parent_pos + 1 ELSE parent_pos IN
       IF LeftoverParentCaptures(popped)
       THEN /\ Abort("leftover parent captures?")
            /\ parent_pos' = popped + 1
            /\ UNCHANGED by_move_body
       ELSE /\ parent_pos' = popped
            /\ IF coroutine_kind = "FnOnce"
               THEN IF RemappingSizeMismatch(field_remapping)
                    THEN /\ Abort("field_remapping.len() != closure_captures(parent).len()")
                         /\ UNCHANGED by_move_body
                    ELSE /\ pc' = "done"
                         /\ UNCHANGED <<failure, by_move_body>>
               ELSE /\ pc' = "visiting"
                    /\ by_move_body' = TargetBody
                    /\ UNCHANGED failure
    /\ visit_pos' = 0
    /\ UNCHANGED <<visitor_vars, inputs, call, body, coroutine_kind, child_pos, field_used_at_least_once,
                   field_remapping>>

\* The visitor let loose on the body itself
VisitedInPlace(original, clone) == clone

\* `body` while the visitor works on `body.clone()`: the clone shares nothing with it
OriginalWhileVisiting(original, clone) == original

\* visit_body reaches the next place of the clone
VisitPlace ==
    /\ pc = "visiting"
    /\ visit_pos < Len(by_move_body.places)
    /\ LET place == by_move_body.places[visit_pos + 1] IN
       IF visit_place_aborts(field_remapping, place)
       THEN /\ Abort("visit_place")
            /\ UNCHANGED <<by_move_body, visit_pos>>
       ELSE /\ by_move_body' = [by_move_body EXCEPT
                    !.places[visit_pos + 1] = visit_place(field_remapping, place)]
            /\ visit_pos' = visit_pos + 1
            /\ UNCHANGED <<pc, failure>>
    /\ body' = OriginalWhileVisiting(body, by_move_body')
    /\ UNCHANGED <<visitor_vars, inputs, call, coroutine_kind, parent_pos, child_pos,
                   field_used_at_least_once, field_remapping>>

\* The clone left with the source of the body it was cloned from
UnmarkedByMoveBody ==
    [by_move_body EXCEPT
        !.local_decls = [l \in DOMAIN by_move_body.local_decls |->
                            visit_local_decl(l, by_move_body.local_decls[l])]]

\* The clone after visit_body has passed the local declarations and run_pass has
\* set its source
FinishedByMoveBody ==
    [by_move_body EXCEPT
        !.local_decls = [l \in DOMAIN by_move_body.local_decls |->
                            visit_local_decl(l, by_move_body.local_decls[l])],
        !.source = ShimSource]

\* The end of visit_body, and of run_pass: the clone is stored in the body that
\* run_pass was given
AttachByMoveBody ==
    /\ pc = "visiting"
    /\ visit_pos = Len(by_move_body.places)
    /\ by_move_body' = FinishedByMoveBody
    /\ body' = IF target = "body"
               THEN WithByMoveBody(body, FinishedByMoveBody)
               ELSE [body EXCEPT !.by_move_body =
                        WithByMoveBody(body.by_move_body, FinishedByMoveBody)]
    /\ pc' = "done"
    /\ UNCHANGED <<visitor_vars, inputs, call, coroutine_kind, parent_pos, child_pos,
                   field_used_at_least_once, field_remapping, visit_pos, failure>>

\* The pass runs once more for the coroutine: on its body again, or on the by-move
\* body the last run has stored. The locals of the last run are dead and stay as
\* they are until the new run sets them.
Reinvoke ==
    /\ pc = "done"
    /\ body.by_move_body # None
    /\ invocations < MaxInvocations
    /\ target' \in {"body", "by_move_body"}
    /\ invocations' = invocations + 1
    /\ pc' = "start"
    /\ UNCHANGED <<visitor_vars, inputs, body, coroutine_kind, parent_pos, child_pos,
                   field_used_at_least_once, field_remapping, by_move_body, visit_pos,
                   failure>>

Next ==
    \/ RunPassEnter
    \/ MatchStep
    \/ FinishMatching
    \/ VisitPlace
    \/ AttachByMoveBody
    \/ Reinvoke

----------------------------------------------------------------------------
(* The inputs of a run. *)

SeqsUpTo(S, n) == UNION {[1..k -> S] : k \in 0..n}

Captures(variables, paths, modes) ==
    {MkCapture(v, k, m) : v \in variables, k \in paths, m \in modes}

\* The captures of the closure's arguments, which come first in the child's list
ArgCaptures(n) == [i \in 1..n |-> MkCapture("arg", <<>>, "ByValue")]

ClosureKinds == {"Fn", "FnMut", "FnOnce"}
MatchKinds == {"FnMut", "FnOnce"}
NumArgs == {0, 1}

\* The type of the field of the child's capture struct a place goes through
ChildFieldTy(i) == [tag |-> "ChildField", idx |-> i]

LocalDecls(coroutine_ty) ==
    [l \in 0..2 |-> [ty |-> IF l = CAPTURE_STRUCT_LOCAL THEN coroutine_ty
                            ELSE [tag |-> "Local", idx |-> l]]]

\* A body of a coroutine of the given kind, not yet processed
CoroutineBody(kind, places) ==
    MkBody(ItemSource, LocalDecls(CoroutineTy(kind, "child")), places, None)

\* No Visitor of the older MIR is at work during run_pass
NoVisitor ==
    /\ mir = None
    /\ overridden = "none"
    /\ stack = <<>>
    /\ trace = <<>>

InitLocals ==
    /\ NoVisitor
    /\ pc = "start"
    /\ target = "body"
    /\ invocations = 1
    /\ coroutine_kind = "unset"
    /\ parent_pos = 0
    /\ child_pos = 0
    /\ field_used_at_least_once = FALSE
    /\ field_remapping = EmptyMap
    /\ by_move_body = None
    /\ visit_pos = 0
    /\ failure = "none"

\* Capture lists over two variables and their first two fields, by value or by
\* shared reference; a coroutine for FnMut or FnOnce; a body with a dereference
\* through the first capture field, one place of another local and a plain use of
\* the second capture field
MatchVars == {"x", "y"}
MatchPaths == {<<>>, <<KField(0, 0)>>, <<KField(1, 0)>>}
MatchModes == {"ByValue", "ImmBorrow"}
MatchPlaces ==
    <<MkPlace(CAPTURE_STRUCT_LOCAL, <<Field(0, ChildFieldTy(0)), Deref>>),
      MkPlace(2, <<Deref>>),
      MkPlace(CAPTURE_STRUCT_LOCAL, <<Field(1, ChildFieldTy(1))>>)>>

\* Whether one path of projection kinds is a prefix of the other
PrefixRelated(a, b) ==
    \A i \in 1..Min(Len(a), Len(b)) : a[i].kind = b[i].kind

\* What capture analysis guarantees of one capture list: no captured place is
\* another captured place of the list, or an ancestor of one
DisjointCaptures(captures) ==
    \A i, j \in 1..Len(captures) :
        i # j /\ captures[i].var = captures[j].var
            => ~PrefixRelated(captures[i].projections, captures[j].projections)

CaptureLists(universe, n) == {l \in SeqsUpTo(universe, n) : DisjointCaptures(l)}

Init ==
    /\ parent_captures \in CaptureLists(Captures(MatchVars, MatchPaths, MatchModes), MaxParents)
    /\ num_args \in NumArgs
    /\ \E upvars \in CaptureLists(Captures(MatchVars, MatchPaths, MatchModes), MaxChildren) :
          child_captures = ArgCaptures(num_args) \o upvars
    /\ tcx_coroutine_kind = "DesugaredClosure"
    /\ \E kind \in MatchKinds : body = CoroutineBody(kind, MatchPlaces)
    /\ InitLocals

Spec == Init /\ [][Next]_vars

\* One parent capture of a variable and one child capture of a place of it, every
\* capture mode; bodies of up to MaxPlaces places of the capture struct local and of
\* another local
RewriteParentModes == {"ByValue", "ImmBorrow", "MutBorrow"}
RewriteChildPaths == {<<>>, <<KField(1, 0)>>, <<KDeref>>, <<KField(0, 1)>>, <<KIndex>>}
RewriteChildModes == {"ByValue", "ImmBorrow"}
RewriteFirstElems == {Field(0, ChildFieldTy(0)), Field(1, ChildFieldTy(1)), Deref}
RewriteNextElems == {Field(0, ChildFieldTy(0)), Deref}
RewriteProjections ==
    {<<>>} \cup
    {<<e>> \o rest : e \in RewriteFirstElems, rest \in SeqsUpTo(RewriteNextElems, 2)}
RewritePlaces == {MkPlace(l, p) : l \in {CAPTURE_STRUCT_LOCAL, 2}, p \in RewriteProjections}

InitRewrite ==
    /\ \E mode \in RewriteParentModes : parent_captures = <<MkCapture("x", <<>>, mode)>>
    /\ num_args \in NumArgs
    /\ \E path \in RewriteChildPaths, mode \in RewriteChildModes :
          child_captures = ArgCaptures(num_args) \o <<MkCapture("x", path, mode)>>
    /\ tcx_coroutine_kind = "DesugaredClosure"
    /\ \E kind \in MatchKinds, places \in SeqsUpTo(RewritePlaces, MaxPlaces) :
          body = CoroutineBody(kind, places)
    /\ InitLocals

SpecRewrite == InitRewrite /\ [][Next]_vars

----------------------------------------------------------------------------
(* What the properties below speak of. *)

\* The failures of the matching loop and of the checks that close it
MatchingFailures ==
    {"we ran out of parent captures!", "child_prefix_matches_parent_projections",
     "captured but not used in the child coroutine",
     "FnOnce coroutine-closure needs deref", "leftover parent captures?"}

MatchingFailed == pc = "bug" /\ failure \in MatchingFailures

\* The run has passed the matching loop and the leftover check
MatchingSucceeded ==
    \/ pc = "visiting"
    \/ pc = "done" /\ coroutine_kind # "unset"
    \/ pc = "bug" /\ failure \in {"field_remapping.len() != closure_captures(parent).len()",
                                  "visit_place"}

\* The run has left the matching loop, one way or another
MatchingOver == pc \notin {"start", "matching"}

\* The parent capture reads the same variable as the child capture and its path is
\* a prefix of the child's path
Refines(parent_capture, child_capture) ==
    /\ parent_capture.var = child_capture.var
    /\ Len(parent_capture.projections) <= Len(child_capture.projections)
    /\ \A i \in 1..Len(parent_capture.projections) :
          parent_capture.projections[i].kind = child_capture.projections[i].kind

\* The child list (after the arguments) is an ordered one-to-many refinement of the
\* parent list: it splits into one non-empty run of consecutive captures per parent
\* capture, in order, each refining its parent capture
ValidRefinement ==
    \E g \in [1..Len(Children) -> 1..Len(parent_captures)] :
        /\ \A c \in 1..Len(Children) : Refines(parent_captures[g[c]], Children[c])
        /\ \A c \in 1..Len(Children) : c > 1 => g[c] \in {g[c - 1], g[c - 1] + 1}
        /\ Len(Children) > 0 => g[1] = 1 /\ g[Len(Children)] = Len(parent_captures)
        /\ Len(Children) = 0 => Len(parent_captures) = 0

\* The child capture (after the arguments) and the parent capture of an entry
EntryChild(key) == Children[key - num_args + 1]
EntryParent(key) == parent_captures[field_remapping[key].remapped_idx - num_args + 1]

EveryChildMapped ==
    DOMAIN field_remapping = {c + num_args : c \in 0..(Len(Children) - 1)}

EveryParentUsed ==
    \A p \in 0..(Len(parent_captures) - 1) :
        \E key \in DOMAIN field_remapping : field_remapping[key].remapped_idx = p + num_args

----------------------------------------------------------------------------
(* C1. Matching totality: on every pair of capture lists in which the child list is
   a valid ordered one-to-many refinement of the parent list, the matching loop
   ends without a fatal assertion, with an entry for every child capture and every
   parent capture used.  Stated for the kinds other than FnOnce, whose guard
   against needs_deref is a separate matter. *)
C1_MatchingTotality ==
    (ValidRefinement /\ body.local_decls[CAPTURE_STRUCT_LOCAL].ty.kind # "FnOnce")
        => /\ ~MatchingFailed
           /\ MatchingSucceeded => EveryChildMapped /\ EveryParentUsed

(* C2. A parent capture no child capture matches is fatal: a run that passes the
   matching has an entry onto every parent index, and a run whose parent list holds
   a capture that no child capture refines ends the matching in a failure. *)
C2_UnusedParentIsFatal ==
    /\ MatchingSucceeded => EveryParentUsed
    /\ (/\ MatchingOver
        /\ \E p \in 1..Len(parent_captures) :
              \A c \in 1..Len(Children) : ~Refines(parent_captures[p], Children[c]))
          => MatchingFailed

\* A second parent capture is left over after every child capture found its match
C2_Witness ==
    /\ pc = "bug"
    /\ failure = "leftover parent captures?"
    /\ Len(Children) >= 1
    /\ Len(parent_captures) = 2

(* C3, as claimed: for a FnOnce coroutine, on every pair of capture lists on which
   the matching succeeds, run_pass returns without a by-move body and with a
   remapping of exactly as many entries as the parent has captures. *)
C3_ReturnsWheneverMatched ==
    (coroutine_kind = "FnOnce" /\ MatchingOver /\ ~MatchingFailed)
        => /\ pc = "done"
           /\ body.by_move_body = None
           /\ Cardinality(DOMAIN field_remapping) = Len(parent_captures)

(* C3, amended: for a FnOnce coroutine run_pass never clones the body nor attaches
   a by-move body; when it returns after the matching the remapping has exactly as
   many entries as the parent has captures, one per child capture and onto every
   parent capture; when the matching succeeds with another number of entries (one
   parent capture refined into several child captures), run_pass aborts in its
   assert_eq! instead of returning. *)
C3_CallOnceShortCircuit ==
    coroutine_kind = "FnOnce"
        => /\ body.by_move_body = None
           /\ by_move_body = None
           /\ pc # "visiting"
           /\ pc = "done"
                => /\ Cardinality(DOMAIN field_remapping) = Len(parent_captures)
                   /\ EveryChildMapped
                   /\ EveryParentUsed
           /\ (MatchingSucceeded
                 /\ Cardinality(DOMAIN field_remapping) # Len(parent_captures))
                => pc = "bug"

\* A FnOnce coroutine whose two parent captures were matched returned
C3_Witness ==
    /\ coroutine_kind = "FnOnce"
    /\ pc = "done"
    /\ Len(parent_captures) = 2
    /\ Cardinality(DOMAIN field_remapping) = 2

----------------------------------------------------------------------------
(* The places of the clone the visitor has reached. *)

\* visit_place ended the run at place i
AbortedAt(i) == pc = "bug" /\ failure = "visit_place" /\ i = visit_pos + 1

\* visit_place has been applied to place i and has returned
Rewritten(i) == pc \in {"visiting", "done"} /\ by_move_body # None /\ i <= visit_pos

\* visit_place has been applied to place i
Reached(i) == Rewritten(i) \/ AbortedAt(i)

\* The place of the original body goes through a remapped capture field
ThroughCapture(place) ==
    /\ place.local = CAPTURE_STRUCT_LOCAL
    /\ place.projection # <<>>
    /\ place.projection[1].tag = "Field"
    /\ place.projection[1].idx \in DOMAIN field_remapping

EntryOf(place) == field_remapping[place.projection[1].idx]

\* The extra projections of the entry are fields (of the first variant) and derefs,
\* and the projections at 2..(1 + their number) of the place are those, in order
ExtraProjectionsAt(entry, projection) ==
    /\ Len(projection) >= 1 + Len(entry.additional_projections)
    /\ \A j \in 1..Len(entry.additional_projections) :
          LET extra == entry.additional_projections[j]
              elem == projection[1 + j]
          IN \/ extra.kind.tag = "Deref" /\ elem.tag = "Deref"
             \/ /\ extra.kind.tag = "Field" /\ elem.tag = "Field"
                /\ elem.idx = extra.kind.idx /\ elem.ty = extra.ty

ExtraProjectionsWellFormed(entry) ==
    \A j \in 1..Len(entry.additional_projections) :
        \/ entry.additional_projections[j].kind.tag = "Deref"
        \/ /\ entry.additional_projections[j].kind.tag = "Field"
           /\ entry.additional_projections[j].kind.variant = 0

\* The projections of the rewritten place after the leading field and the extra
\* projections
SuffixOf(entry, projection) ==
    SubSeq(projection, 2 + Len(entry.additional_projections), Len(projection))

\* A place through a capture that needs the deref peeled, with the deref in place
PeeledPlace(place) ==
    /\ ThroughCapture(place)
    /\ EntryOf(place).needs_deref
    /\ ExtraProjectionsWellFormed(EntryOf(place))
    /\ Len(place.projection) >= 2
    /\ place.projection[2].tag = "Deref"

\* The clone's place i lost exactly the deref after the leading field and kept the
\* rest of the place's projections, in order
PeeledOneDeref(i) ==
    LET place == body.places[i]
        new == by_move_body.places[i]
        entry == EntryOf(place)
    IN /\ Len(new.projection) + 1 = Len(place.projection) + Len(entry.additional_projections)
       /\ SuffixOf(entry, new.projection) = SubSeq(place.projection, 3, Len(place.projection))

(* C4, as claimed: a place through a capture with needs_deref loses the one deref
   after the leading field and keeps every further projection, whatever the
   further projections are. *)
C4_PeelsForAnySuffix ==
    \A i \in 1..Len(body.places) :
        (PeeledPlace(body.places[i]) /\ Reached(i))
            => Rewritten(i) /\ PeeledOneDeref(i)

(* C4, amended: a place through a capture with needs_deref loses the one deref
   after the leading field and keeps the further projections when these are
   nothing or one more deref; for any other further projections visit_place aborts
   instead of rewriting the place. *)
C4_PeelsOneDeref ==
    \A i \in 1..Len(body.places) :
        (PeeledPlace(body.places[i]) /\ Reached(i))
            => LET rest == SubSeq(body.places[i].projection, 3,
                                  Len(body.places[i].projection))
               IN IF rest = <<>> \/ (Len(rest) = 1 /\ rest[1].tag = "Deref")
                  THEN Rewritten(i) /\ PeeledOneDeref(i)
                  ELSE AbortedAt(i)

\* A place `**_1.f` through a capture with needs_deref has been rewritten
C4_Witness ==
    \E i \in 1..Len(body.places) :
        /\ PeeledPlace(body.places[i])
        /\ Len(body.places[i].projection) = 3
        /\ Rewritten(i)

(* C5. The shape of a rewritten place: the same local, then the field of the parent
   capture with the parent type, then the extra projections of the entry in order,
   then what is left of the original projections after the leading field and after
   the peeled deref. *)
C5_RewrittenShape ==
    \A i \in 1..Len(body.places) :
        (ThroughCapture(body.places[i]) /\ Rewritten(i))
            => LET place == body.places[i]
                   new == by_move_body.places[i]
                   entry == EntryOf(place)
               IN /\ new.local = place.local
                  /\ new.projection[1].tag = "Field"
                  /\ new.projection[1].idx = entry.remapped_idx
                  /\ new.projection[1].ty = entry.remapped_ty
                  /\ ExtraProjectionsAt(entry, new.projection)
                  /\ SuffixOf(entry, new.projection) =
                        SubSeq(place.projection, IF entry.needs_deref THEN 3 ELSE 2,
                               Len(place.projection))

\* A place through a capture refined by an extra projection has been rewritten
C5_Witness ==
    \E i \in 1..Len(body.places) :
        /\ ThroughCapture(body.places[i])
        /\ EntryOf(body.places[i]).additional_projections # <<>>
        /\ Len(body.places[i].projection) >= 2
        /\ Rewritten(i)

(* C6. A place of another local than the capture struct local is the same place in
   the by-move body, and visit_place never fails on it. *)
C6_OtherLocalsUntouched ==
    \A i \in 1..Len(body.places) :
        body.places[i].local # CAPTURE_STRUCT_LOCAL
            => /\ ~AbortedAt(i)
               /\ Rewritten(i) => by_move_body.places[i] = body.places[i]
               /\ body.by_move_body # None => body.by_move_body.places[i] = body.places[i]

\* A place `_2.f` whose field is the key of an entry has been visited
C6_Witness ==
    \E i \in 1..Len(body.places) :
        /\ body.places[i].local # CAPTURE_STRUCT_LOCAL
        /\ body.places[i].projection # <<>>
        /\ body.places[i].projection[1].tag = "Field"
        /\ body.places[i].projection[1].idx \in DOMAIN field_remapping
        /\ Rewritten(i)

(* C7. No step of run_pass changes the source, the local declarations or the places
   of the original body; its by-move body slot changes only at the end of a run
   that rewrote a clone, and is set then. *)
C7_OriginalBodyKept ==
    [][/\ body'.source = body.source
       /\ body'.local_decls = body.local_decls
       /\ body'.places = body.places
       /\ body'.by_move_body # body.by_move_body
            => pc = "visiting" /\ pc' = "done" /\ body'.by_move_body # None]_vars

\* A by-move body whose places differ from the original's has been attached
C7_Witness ==
    /\ pc = "done"
    /\ body.by_move_body # None
    /\ body.by_move_body.places # body.places

----------------------------------------------------------------------------
(* The entries of the remapping. *)

TyOfVar(v) == PlaceTy(v, <<>>)

ScenarioA ==
    /\ parent_captures = <<MkCapture("x", <<>>, "ByValue"), MkCapture("y", <<>>, "ImmBorrow")>>
    /\ child_captures = <<MkCapture("x", <<>>, "ImmBorrow"), MkCapture("y", <<>>, "ImmBorrow")>>
    /\ num_args = 0
    /\ body.local_decls[CAPTURE_STRUCT_LOCAL].ty.kind # "FnOnce"

(* C8, as claimed: in scenario A (parent [x by value, y by shared reference], child
   [x by shared reference, y by shared reference], no arguments, not FnOnce) the
   matching succeeds with the remapping
   {0: (0, &T_x, true, []), 1: (1, &T_y, false, [])}. *)
C8_BothTypesReferences ==
    (ScenarioA /\ MatchingOver)
        => /\ MatchingSucceeded
           /\ field_remapping =
                [key \in {0, 1} |->
                    IF key = 0
                    THEN [remapped_idx |-> 0,
                          remapped_ty |-> Ty_new_ref(TyOfVar("x"), "Not"),
                          needs_deref |-> TRUE, additional_projections |-> <<>>]
                    ELSE [remapped_idx |-> 1,
                          remapped_ty |-> Ty_new_ref(TyOfVar("y"), "Not"),
                          needs_deref |-> FALSE, additional_projections |-> <<>>]]

(* C8, amended: in scenario A the matching succeeds with the remapping
   {0: (0, T_x, true, []), 1: (1, &T_y, false, [])}: the type recorded for x, which
   the parent captures by value, is the bare type of x; only the type recorded for
   y is a reference type. *)
C8_ScenarioA ==
    (ScenarioA /\ MatchingOver)
        => /\ MatchingSucceeded
           /\ field_remapping =
                [key \in {0, 1} |->
                    IF key = 0
                    THEN [remapped_idx |-> 0,
                          remapped_ty |-> TyOfVar("x"),
                          needs_deref |-> TRUE, additional_projections |-> <<>>]
                    ELSE [remapped_idx |-> 1,
                          remapped_ty |-> Ty_new_ref(TyOfVar("y"), "Not"),
                          needs_deref |-> FALSE, additional_projections |-> <<>>]]

\* Scenario A has run to its end
C8_Witness == ScenarioA /\ pc = "done" /\ body.by_move_body # None

KindsOf(projections) == [i \in 1..Len(projections) |-> projections[i].kind]

ScenarioB ==
    /\ parent_captures = <<MkCapture("x", <<>>, "ByValue")>>
    /\ child_captures = <<MkCapture("x", <<KField(0, 0)>>, "ImmBorrow"),
                          MkCapture("x", <<KField(1, 0)>>, "ImmBorrow")>>
    /\ num_args = 0
    /\ body.local_decls[CAPTURE_STRUCT_LOCAL].ty.kind # "FnOnce"

(* C9. Precise captures: every entry maps its child capture to a parent capture it
   refines, and its extra projections are the child's path beyond the length of the
   parent's path, so that the parent's path followed by them is the child's path.
   In scenario B (parent [s by value], child [s.0 by reference, s.1 by reference])
   both entries map to parent 0, with extra projections [Field 0] and [Field 1] and
   needs_deref set. *)
C9_PreciseCaptureSplit ==
    /\ \A key \in DOMAIN field_remapping :
          LET entry == field_remapping[key] IN
          /\ Refines(EntryParent(key), EntryChild(key))
          /\ Len(entry.additional_projections) =
                Len(EntryChild(key).projections) - Len(EntryParent(key).projections)
          /\ KindsOf(EntryParent(key).projections) \o KindsOf(entry.additional_projections)
                = KindsOf(EntryChild(key).projections)
          /\ \A j \in 1..Len(entry.additional_projections) :
                entry.additional_projections[j] =
                    EntryChild(key).projections[Len(EntryParent(key).projections) + j]
    /\ (ScenarioB /\ MatchingOver)
          => /\ MatchingSucceeded
             /\ DOMAIN field_remapping = {0, 1}
             /\ \A key \in {0, 1} :
                   /\ field_remapping[key].remapped_idx = 0
                   /\ field_remapping[key].needs_deref
                   /\ KindsOf(field_remapping[key].additional_projections)
                        = <<KField(key, 0)>>

\* Scenario B has been matched
C9_Witness == ScenarioB /\ MatchingSucceeded /\ Cardinality(DOMAIN field_remapping) = 2

(* C10. needs_deref of an entry is set exactly when the child captures by reference
   and the parent by value; it is not set in the three other combinations. *)
C10_NeedsDeref ==
    \A key \in DOMAIN field_remapping :
        LET child_by_value == EntryChild(key).capture_kind = "ByValue"
            parent_by_value == EntryParent(key).capture_kind = "ByValue"
            needs_deref == field_remapping[key].needs_deref
        IN /\ (~child_by_value /\ parent_by_value) => needs_deref
           /\ (~child_by_value /\ ~parent_by_value) => ~needs_deref
           /\ (child_by_value /\ parent_by_value) => ~needs_deref
           /\ (child_by_value /\ ~parent_by_value) => ~needs_deref

\* One entry with needs_deref and one of a child by value onto a parent by reference
C10_Witness ==
    \E k1, k2 \in DOMAIN field_remapping :
        /\ field_remapping[k1].needs_deref
        /\ EntryChild(k2).capture_kind = "ByValue"
        /\ EntryParent(k2).capture_kind # "ByValue"
        /\ ~field_remapping[k2].needs_deref

(* C11. The type stored in an entry is the place type of the entry's parent capture,
   bare when the parent captures by value, wrapped in a shared reference when it
   captures by shared borrow and in a mutable reference when it captures by mutable
   borrow; the child's capture mode has no part in it. *)
C11_ParentCaptureType ==
    \A key \in DOMAIN field_remapping :
        LET parent == EntryParent(key)
            bare == PlaceTy(parent.var, KindsOf(parent.projections))
            stored == field_remapping[key].remapped_ty
        IN /\ parent.capture_kind = "ByValue" => stored = bare
           /\ parent.capture_kind = "ImmBorrow"
                => stored = [tag |-> "Ref", mutbl |-> "Not", inner |-> bare]
           /\ parent.capture_kind = "MutBorrow"
                => stored = [tag |-> "Ref", mutbl |-> "Mut", inner |-> bare]

\* An entry of a child by value onto a parent by mutable borrow
C11_Witness ==
    \E key \in DOMAIN field_remapping :
        /\ EntryParent(key).capture_kind = "MutBorrow"
        /\ EntryChild(key).capture_kind = "ByValue"
        /\ field_remapping[key].remapped_ty.tag = "Ref"

\* The child capture under the cursor matches the parent capture under the cursor,
\* by reference what the parent captures by value
DerefMatchAtCursor ==
    /\ child_pos < Len(Children)
    /\ parent_pos < Len(parent_captures)
    /\ LET parent == parent_captures[parent_pos + 1]
           child == Children[child_pos + 1]
       IN /\ Len(child.projections) >= Len(parent.projections)
          /\ Refines(parent, child)
          /\ child.capture_kind # "ByValue"
          /\ parent.capture_kind = "ByValue"

(* C12. For a FnOnce coroutine, a child capture by reference that matches a parent
   capture by value ends run_pass in a fatal failure at that match: no entry is
   recorded for it or for a later child capture, no entry of the table pairs a
   child by reference with a parent by value, and neither a clone nor an alternate
   body exists. *)
C12_CallOnceGuard ==
    /\ [](coroutine_kind = "FnOnce"
            => \A key \in DOMAIN field_remapping :
                  ~(/\ EntryChild(key).capture_kind # "ByValue"
                    /\ EntryParent(key).capture_kind = "ByValue"))
    /\ []((pc = "bug" /\ failure = "FnOnce coroutine-closure needs deref")
            => /\ coroutine_kind = "FnOnce"
               /\ DerefMatchAtCursor
               /\ DOMAIN field_remapping = {c + num_args : c \in 0..(child_pos - 1)}
               /\ by_move_body = None
               /\ body.by_move_body = None)
    /\ [][(pc = "matching" /\ coroutine_kind = "FnOnce" /\ DerefMatchAtCursor)
            => /\ pc' = "bug"
               /\ failure' = "FnOnce coroutine-closure needs deref"
               /\ field_remapping' = field_remapping
               /\ child_pos' = child_pos
               /\ body' = body]_vars

\* The guard has ended a run in which a later child capture was still to come
C12_Witness ==
    /\ pc = "bug"
    /\ failure = "FnOnce coroutine-closure needs deref"
    /\ child_pos + 1 < Len(Children)

----------------------------------------------------------------------------
(* What a run leaves behind. *)

(* C13. A run that ends in a fatal failure, be it of the matching, of the size
   assertion of FnOnce or of the rewriting of a place of the clone, leaves no
   output: the body changes only in a step that ends a run successfully, and at a
   failure its by-move body slot is empty. *)
C13_FailuresLeaveNothing ==
    /\ [](pc = "bug" => /\ failure # "none"
                        /\ body.by_move_body = None)
    /\ [][body' # body => pc' = "done" /\ failure' = "none"]_vars

\* The rewriting has failed after it had rewritten a place of the clone
C13_Witness ==
    /\ pc = "bug"
    /\ failure = "visit_place"
    /\ visit_pos > 0
    /\ by_move_body.places # body.places

\* Bodies of every origin: of a local item, of an item of another crate, of the
\* CoroutineKindShim instance; of a coroutine-closure's coroutine or of any other
\* kind of item; the capture struct local of a coroutine type, of an error type or
\* (for other items) of any other type. One parent capture and one child capture.
NonLocalSource == [is_local |-> FALSE, instance |-> "Item"]
EarlySources == {ItemSource, NonLocalSource, ShimSource}
CoroutineKinds == {"None", "Coroutine", "DesugaredBlock", "DesugaredFn", "DesugaredClosure"}
ErrorTy == [tag |-> "Error"]
OtherTy == [tag |-> "Local", idx |-> CAPTURE_STRUCT_LOCAL]

CaptureStructTys(kind) ==
    {CoroutineTy(k, "child") : k \in ClosureKinds} \cup {ErrorTy}
        \cup (IF kind = "DesugaredClosure" THEN {} ELSE {OtherTy})

InitEarly ==
    /\ \E mode \in RewriteParentModes : parent_captures = <<MkCapture("x", <<>>, mode)>>
    /\ num_args \in NumArgs
    /\ \E path \in RewriteChildPaths, mode \in RewriteChildModes :
          child_captures = ArgCaptures(num_args) \o <<MkCapture("x", path, mode)>>
    /\ tcx_coroutine_kind \in CoroutineKinds
    /\ \E source \in EarlySources, ty \in CaptureStructTys(tcx_coroutine_kind) :
          body = MkBody(source, LocalDecls(ty), MatchPlaces, None)
    /\ InitLocals

SpecEarly == InitEarly /\ [][Next]_vars

\* The body is one run_pass has nothing to do for
IneligibleBody ==
    \/ ~body.source.is_local
    \/ tcx_coroutine_kind # "DesugaredClosure"
    \/ body.local_decls[CAPTURE_STRUCT_LOCAL].ty.tag = "Error"
    \/ body.source.instance = "CoroutineKindShim"

(* C14. For a body that is not local, not the coroutine of a coroutine-closure,
   whose capture struct local has an error type, or whose source is the
   CoroutineKindShim instance, run_pass returns at once: no failure, no step of the
   matching (the cursors and the remapping are never set up), no clone, the body
   unchanged and its by-move body slot empty. *)
C14_GracefulEarlyExits ==
    /\ [](IneligibleBody
            => /\ pc \in {"start", "done"}
               /\ failure = "none"
               /\ body.by_move_body = None
               /\ by_move_body = None
               /\ coroutine_kind = "unset"
               /\ field_remapping = EmptyMap
               /\ parent_pos = 0
               /\ child_pos = 0
               /\ invocations = 1)
    /\ [][IneligibleBody => /\ body' = body
                            /\ pc = "start" => pc' = "done"]_vars

\* A local coroutine-closure body with an error type has been returned from
C14_Witness ==
    /\ pc = "done"
    /\ body.local_decls[CAPTURE_STRUCT_LOCAL].ty.tag = "Error"
    /\ body.source = ItemSource
    /\ tcx_coroutine_kind = "DesugaredClosure"

(* C15. A by-move body stored by run_pass has the CoroutineKindShim instance as its
   source, while the source of the body it was made for stays the item's own; and
   run_pass called on a by-move body returns at once: it changes nothing, neither
   the by-move body nor the body that holds it, and clones nothing. *)
C15_ByMoveBodyIsMarked ==
    /\ [](body.by_move_body # None
            => /\ body.by_move_body.source =
                     [is_local |-> TRUE, instance |-> "CoroutineKindShim"]
               /\ body.source.instance = "Item")
    /\ [][body'.source = body.source]_vars
    /\ [][(pc = "start" /\ target = "by_move_body")
            => /\ pc' = "done"
               /\ body' = body
               /\ by_move_body' = by_move_body
               /\ failure' = "none"]_vars

\* run_pass has been called on a by-move body and has returned
C15_Witness ==
    /\ pc = "done"
    /\ target = "by_move_body"
    /\ invocations = 2
    /\ body.by_move_body # None
    /\ body.by_move_body.by_move_body = None

(* C16. In a by-move body the declared type of the capture struct local is the
   by-move coroutine type (the coroutine as FnOnce over the parent's upvars), and
   the declaration of every other local is the one of the original body. *)
C16_LocalDecls ==
    body.by_move_body # None
        => LET decls == body.by_move_body.local_decls IN
           /\ DOMAIN decls = DOMAIN body.local_decls
           /\ decls[CAPTURE_STRUCT_LOCAL].ty =
                 [tag |-> "Coroutine", kind |-> "FnOnce", upvars |-> "parent"]
           /\ \A l \in DOMAIN decls :
                 l # CAPTURE_STRUCT_LOCAL => decls[l] = body.local_decls[l]

\* A by-move body of a coroutine that is not FnOnce itself has been stored
C16_Witness ==
    /\ pc = "done"
    /\ body.by_move_body # None
    /\ body.local_decls[CAPTURE_STRUCT_LOCAL].ty.kind = "FnMut"
    /\ body.by_move_body.local_decls[CAPTURE_STRUCT_LOCAL].ty
          # body.local_decls[CAPTURE_STRUCT_LOCAL].ty

(* C17. When visit_place rewrites a place through an entry, an extra projection of
   the entry that is a field of the first variant becomes a Field projection of the
   same index and type, and one that is a dereference becomes a Deref projection;
   when the entry has an extra projection of another kind (a field of another
   variant, an index), visit_place ends in a fatal failure and leaves no rewritten
   place. *)
C17_ExtraProjectionKinds ==
    \A i \in 1..Len(body.places) :
        (ThroughCapture(body.places[i]) /\ Reached(i))
            => LET extras == EntryOf(body.places[i]).additional_projections IN
               /\ Rewritten(i)
                    => \A j \in 1..Len(extras) :
                          LET elem == by_move_body.places[i].projection[1 + j] IN
                          /\ extras[j].kind.tag \in {"Field", "Deref"}
                          /\ extras[j].kind.tag = "Field"
                                => /\ extras[j].kind.variant = 0
                                   /\ elem = [tag |-> "Field", idx |-> extras[j].kind.idx,
                                              ty |-> extras[j].ty]
                          /\ extras[j].kind.tag = "Deref" => elem.tag = "Deref"
               /\ (\E j \in 1..Len(extras) :
                      \/ extras[j].kind.tag \notin {"Field", "Deref"}
                      \/ extras[j].kind.tag = "Field" /\ extras[j].kind.variant # 0)
                    => AbortedAt(i)

\* visit_place has failed on a place whose shape is right, through an entry with an
\* extra projection that is neither a field of the first variant nor a dereference
C17_Witness ==
    \E i \in 1..Len(body.places) :
        /\ ThroughCapture(body.places[i])
        /\ AbortedAt(i)
        /\ ~EntryOf(body.places[i]).needs_deref
        /\ Len(body.places[i].projection) = 1
        /\ EntryOf(body.places[i]).additional_projections[1].kind.tag = "Index"

----------------------------------------------------------------------------
(* The MIR visitor of librustc/mir/visit.rs (make_mir_visitor!): the MIR it walks. *)

\* A node of the MIR: its sort (the Rust type), its variant, the nodes it owns, in
\* the order of their declaration, and its other fields
Node(sort, tag, kids, attr) == [sort |-> sort, tag |-> tag, kids |-> kids, attr |-> attr]

\* mir::Location
Location(block, statement_index) == [block |-> block, statement_index |-> statement_index]

\* mir::SourceInfo
SourceInfo(span, scope) == [span |-> span, scope |-> scope]

ARGUMENT_VISIBILITY_SCOPE == 0

\* mir::visit::TyContext
TyContext_LocalDecl(local, source_info) ==
    [tag |-> "LocalDecl", local |-> local, source_info |-> source_info]
TyContext_ReturnTy(source_info) == [tag |-> "ReturnTy", source_info |-> source_info]
TyContext_Location(location) == [tag |-> "Location", location |-> location]

\* mir::visit::PlaceContext
PlaceContext_Store == [tag |-> "Store"]
PlaceContext_Call == [tag |-> "Call"]
PlaceContext_Drop == [tag |-> "Drop"]
PlaceContext_Inspect == [tag |-> "Inspect"]
PlaceContext_Borrow(region, kind) == [tag |-> "Borrow", region |-> region, kind |-> kind]
PlaceContext_Projection(mutability) == [tag |-> "Projection", mutability |-> mutability]
PlaceContext_Copy == [tag |-> "Copy"]
PlaceContext_Move == [tag |-> "Move"]
PlaceContext_StorageLive == [tag |-> "StorageLive"]
PlaceContext_StorageDead == [tag |-> "StorageDead"]
PlaceContext_Validate == [tag |-> "Validate"]

\* PlaceContext::is_mutating_use
is_mutating_use(context) ==
    CASE context.tag \in {"Store", "Call"} -> TRUE
      [] context.tag = "Borrow" /\ context.kind = "Mut" -> TRUE
      [] context.tag = "Projection" /\ context.mutability = "Mut" -> TRUE
      [] context.tag = "Drop" -> TRUE
      [] context.tag = "Inspect" -> FALSE
      [] context.tag = "Borrow" /\ context.kind = "Shared" -> FALSE
      [] context.tag = "Borrow" /\ context.kind = "Unique" -> FALSE
      [] context.tag = "Projection" /\ context.mutability = "Not" -> FALSE
      [] context.tag \in {"Copy", "Move"} -> FALSE
      [] context.tag \in {"StorageLive", "StorageDead"} -> FALSE
      [] context.tag = "Validate" -> FALSE

\* Every use that is not a mutating one taken for a non-mutating one
is_not_mutating_use(context) == ~is_mutating_use(context)

\* PlaceContext::is_nonmutating_use
is_nonmutating_use(context) ==
    CASE context.tag = "Inspect" -> TRUE
      [] context.tag = "Borrow" /\ context.kind = "Shared" -> TRUE
      [] context.tag = "Borrow" /\ context.kind = "Unique" -> TRUE
      [] context.tag = "Projection" /\ context.mutability = "Not" -> TRUE
      [] context.tag \in {"Copy", "Move"} -> TRUE
      [] context.tag = "Borrow" /\ context.kind = "Mut" -> FALSE
      [] context.tag = "Store" -> FALSE
      [] context.tag = "Call" -> FALSE
      [] context.tag = "Projection" /\ context.mutability = "Mut" -> FALSE
      [] context.tag = "Drop" -> FALSE
      [] context.tag \in {"StorageLive", "StorageDead"} -> FALSE
      [] context.tag = "Validate" -> FALSE

\* PlaceContext::is_use
is_use(context) == is_mutating_use(context) \/ is_nonmutating_use(context)

\* mir::Place
Place_Local(local) == Node("Place", "Local", <<>>, [local |-> local])
Place_Static(def_id, ty) == Node("Place", "Static", <<>>, [def_id |-> def_id, ty |-> ty])
Place_Projection(base, elem) == Node("Place", "Projection", <<base, elem>>, None)

\* mir::ProjectionElem
ProjectionElem_Deref == Node("PlaceElem", "Deref", <<>>, None)
ProjectionElem_Subslice == Node("PlaceElem", "Subslice", <<>>, None)
ProjectionElem_Field(field, ty) == Node("PlaceElem", "Field", <<>>, [field |-> field, ty |-> ty])
ProjectionElem_Index(local) == Node("PlaceElem", "Index", <<>>, [local |-> local])
ProjectionElem_ConstantIndex == Node("PlaceElem", "ConstantIndex", <<>>, None)
ProjectionElem_Downcast == Node("PlaceElem", "Downcast", <<>>, None)

\* mir::Literal, mir::Constant
Literal_Value(value) == Node("Literal", "Value", <<>>, [value |-> value])
Literal_Promoted == Node("Literal", "Promoted", <<>>, None)
Constant(span, ty, literal) == Node("Constant", "Constant", <<literal>>, [span |-> span, ty |-> ty])

\* mir::Operand
Operand_Copy(place) == Node("Operand", "Copy", <<place>>, None)
Operand_Move(place) == Node("Operand", "Move", <<place>>, None)
Operand_Constant(constant) == Node("Operand", "Constant", <<constant>>, None)

\* mir::AggregateKind
AggregateKind_Array(ty) == [tag |-> "Array", ty |-> ty]
AggregateKind_Tuple == [tag |-> "Tuple"]
AggregateKind_Adt(substs) == [tag |-> "Adt", substs |-> substs]
AggregateKind_Closure(def_id, closure_substs) ==
    [tag |-> "Closure", def_id |-> def_id, closure_substs |-> closure_substs]
AggregateKind_Generator(def_id, closure_substs, interior) ==
    [tag |-> "Generator", def_id |-> def_id, closure_substs |-> closure_substs,
     interior |-> interior]

\* mir::Rvalue
Rvalue_Use(operand) == Node("Rvalue", "Use", <<operand>>, None)
Rvalue_Repeat(value, length) == Node("Rvalue", "Repeat", <<value>>, [length |-> length])
Rvalue_Ref(r, bk, path) == Node("Rvalue", "Ref", <<path>>, [r |-> r, bk |-> bk])
Rvalue_Len(path) == Node("Rvalue", "Len", <<path>>, None)
Rvalue_Cast(operand, ty) == Node("Rvalue", "Cast", <<operand>>, [ty |-> ty])
Rvalue_BinaryOp(lhs, rhs) == Node("Rvalue", "BinaryOp", <<lhs, rhs>>, None)
Rvalue_CheckedBinaryOp(lhs, rhs) == Node("Rvalue", "CheckedBinaryOp", <<lhs, rhs>>, None)
Rvalue_UnaryOp(op) == Node("Rvalue", "UnaryOp", <<op>>, None)
Rvalue_Discriminant(place) == Node("Rvalue", "Discriminant", <<place>>, None)
Rvalue_NullaryOp(ty) == Node("Rvalue", "NullaryOp", <<>>, [ty |-> ty])
Rvalue_Aggregate(kind, operands) == Node("Rvalue", "Aggregate", operands, [kind |-> kind])

\* mir::Statement { source_info, kind }, by the variant of its StatementKind
Statement(source_info, tag, kids, attr) ==
    Node("Statement", tag, kids, [source_info |-> source_info, kind |-> attr])
StatementKind_Assign(source_info, place, rvalue) ==
    Statement(source_info, "Assign", <<place, rvalue>>, None)
StatementKind_EndRegion(source_info) == Statement(source_info, "EndRegion", <<>>, None)
\* Validate(_, Vec<ValidationOperand { place, ty, .. }>)
StatementKind_Validate(source_info, places, tys) ==
    Statement(source_info, "Validate", places, [tys |-> tys])
StatementKind_SetDiscriminant(source_info, place) ==
    Statement(source_info, "SetDiscriminant", <<place>>, None)
StatementKind_StorageLive(source_info, local) ==
    Statement(source_info, "StorageLive", <<>>, [local |-> local])
StatementKind_StorageDead(source_info, local) ==
    Statement(source_info, "StorageDead", <<>>, [local |-> local])
StatementKind_InlineAsm(source_info, outputs, asm_inputs) ==
    Statement(source_info, "InlineAsm", outputs \o asm_inputs, [outputs |-> Len(outputs)])
StatementKind_Nop(source_info) == Statement(source_info, "Nop", <<>>, None)

\* mir::AssertMessage
AssertMessage_BoundsCheck(len, index) == Node("AssertMessage", "BoundsCheck", <<len, index>>, None)
AssertMessage_Math == Node("AssertMessage", "Math", <<>>, None)
AssertMessage_GeneratorResumedAfterReturn ==
    Node("AssertMessage", "GeneratorResumedAfterReturn", <<>>, None)
AssertMessage_GeneratorResumedAfterPanic ==
    Node("AssertMessage", "GeneratorResumedAfterPanic", <<>>, None)

\* mir::TerminatorKind; an Option<BasicBlock> is None or the block
TerminatorKind(tag, kids, attr) == Node("TerminatorKind", tag, kids, attr)
TerminatorKind_Goto(target_bb) == TerminatorKind("Goto", <<>>, [target |-> target_bb])
TerminatorKind_SwitchInt(discr, switch_ty, values, targets) ==
    TerminatorKind("SwitchInt", <<discr>>,
                   [switch_ty |-> switch_ty, values |-> values, targets |-> targets])
TerminatorKind_Resume == TerminatorKind("Resume", <<>>, None)
TerminatorKind_Return == TerminatorKind("Return", <<>>, None)
TerminatorKind_GeneratorDrop == TerminatorKind("GeneratorDrop", <<>>, None)
TerminatorKind_Unreachable == TerminatorKind("Unreachable", <<>>, None)
TerminatorKind_Drop(location, target_bb, unwind) ==
    TerminatorKind("Drop", <<location>>, [target |-> target_bb, unwind |-> unwind])
TerminatorKind_DropAndReplace(location, value, target_bb, unwind) ==
    TerminatorKind("DropAndReplace", <<location, value>>,
                   [target |-> target_bb, unwind |-> unwind])
\* Call { func, args, destination: Option<(Place, BasicBlock)>, cleanup }
TerminatorKind_Call(func, args, destination, target_bb, cleanup) ==
    TerminatorKind("Call", <<func>> \o args \o destination,
                   [args |-> Len(args), destination |-> destination # <<>>,
                    target |-> target_bb, cleanup |-> cleanup])
TerminatorKind_Assert(cond, msg, target_bb, cleanup) ==
    TerminatorKind("Assert", <<cond, msg>>, [target |-> target_bb, cleanup |-> cleanup])
TerminatorKind_Yield(value, resume, drop) ==
    TerminatorKind("Yield", <<value>>, [resume |-> resume, drop |-> drop])
TerminatorKind_FalseEdges(real_target, imaginary_targets) ==
    TerminatorKind("FalseEdges", <<>>,
                   [real_target |-> real_target, imaginary_targets |-> imaginary_targets])

\* mir::Terminator { source_info, kind }
Terminator(source_info, kind) ==
    Node("Terminator", "Terminator", <<kind>>, [source_info |-> source_info])

\* mir::BasicBlockData { statements, terminator: Option<Terminator>, is_cleanup }
BasicBlockData(statements, terminator) ==
    Node("BasicBlockData", "BasicBlockData", statements \o terminator,
         [statements |-> Len(statements), terminator |-> terminator # <<>>])

\* mir::VisibilityScopeData { span, parent_scope: Option<VisibilityScope> }
VisibilityScopeData(span, parent_scope) == [span |-> span, parent_scope |-> parent_scope]

\* mir::LocalDecl { ty, source_info, lexical_scope, .. }
LocalDecl(ty, source_info, lexical_scope) ==
    [ty |-> ty, source_info |-> source_info, lexical_scope |-> lexical_scope]

\* mir::Mir: its basic blocks (indexed from 0), visibility_scopes, return_ty(),
\* local_decls (indexed from 0) and span
Mir(basic_blocks, visibility_scopes, return_ty, local_decls, span) ==
    Node("Mir", "Mir", basic_blocks,
         [visibility_scopes |-> visibility_scopes, return_ty |-> return_ty,
          local_decls |-> local_decls, span |-> span])

----------------------------------------------------------------------------
(* The MIR visitor: the super_X methods, each as the calls of visit_X methods it
   makes, in order. *)

\* A call self.visit_X(node, ..args); its path is given when the call is made
Invoke(method, node, args) == [method |-> method, node |-> node, args |-> args, path |-> <<>>]

\* visit_branch(source, target) for each of the targets, in order
Visitor_branches(source, targets) ==
    [i \in 1..Len(targets) |->
        Invoke("visit_branch", [target |-> targets[i]], [source |-> source])]

Visitor_super_mir(this) ==
    LET m == this.node IN
    [i \in 1..Len(m.kids) |->
        Invoke("visit_basic_block_data", m.kids[i], [block |-> i - 1])]
    \o [i \in 1..Len(m.attr.visibility_scopes) |->
        Invoke("visit_visibility_scope_data", m.attr.visibility_scopes[i], None)]
    \o <<Invoke("visit_ty", [ty |-> m.attr.return_ty],
                [ty_context |-> TyContext_ReturnTy(
                    SourceInfo(m.attr.span, ARGUMENT_VISIBILITY_SCOPE))])>>
    \o [i \in 1..Len(m.attr.local_decls) |->
        Invoke("visit_local_decl", m.attr.local_decls[i], [local |-> i - 1])]
    \o <<Invoke("visit_span", [span |-> m.attr.span], None)>>

\* The terminator left unvisited
Visitor_statements_only(this) ==
    [i \in 1..this.node.attr.statements |->
        Invoke("visit_statement", this.node.kids[i],
               [block |-> this.args.block,
                location |-> Location(this.args.block, i - 1)])]

Visitor_super_basic_block_data(this) ==
    LET data == this.node
        block == this.args.block
        index == data.attr.statements
    IN [i \in 1..index |->
            Invoke("visit_statement", data.kids[i],
                   [block |-> block, location |-> Location(block, i - 1)])]
       \o (IF data.attr.terminator
           THEN <<Invoke("visit_terminator", data.kids[index + 1],
                         [block |-> block, location |-> Location(block, index)])>>
           ELSE <<>>)

Visitor_super_visibility_scope_data(this) ==
    <<Invoke("visit_span", [span |-> this.node.span], None)>>
    \o [i \in 1..Len(this.node.parent_scope) |->
        Invoke("visit_visibility_scope", [scope |-> this.node.parent_scope[i]], None)]

Visitor_super_statement(this) ==
    LET statement == this.node
        block == this.args.block
        location == this.args.location
        kind == statement.attr.kind
    IN
    <<Invoke("visit_source_info", statement.attr.source_info, None)>>
    \o CASE statement.tag = "Assign" ->
                <<Invoke("visit_assign", statement, [block |-> block, location |-> location])>>
         [] statement.tag = "EndRegion" -> <<>>
         [] statement.tag = "Validate" ->
                [k \in 1..(2 * Len(statement.kids)) |->
                    IF k % 2 = 1
                    THEN Invoke("visit_place", statement.kids[(k + 1) \div 2],
                                [context |-> PlaceContext_Validate, location |-> location])
                    ELSE Invoke("visit_ty", [ty |-> kind.tys[k \div 2]],
                                [ty_context |-> TyContext_Location(location)])]
         [] statement.tag = "SetDiscriminant" ->
                <<Invoke("visit_place", statement.kids[1],
                         [context |-> PlaceContext_Store, location |-> location])>>
         [] statement.tag = "StorageLive" ->
                <<Invoke("visit_local", [local |-> kind.local],
                         [context |-> PlaceContext_StorageLive, location |-> location])>>
         [] statement.tag = "StorageDead" ->
                <<Invoke("visit_local", [local |-> kind.local],
                         [context |-> PlaceContext_StorageDead, location |-> location])>>
         [] statement.tag = "InlineAsm" ->
                [i \in 1..Len(statement.kids) |->
                    IF i <= kind.outputs
                    THEN Invoke("visit_place", statement.kids[i],
                                [context |-> PlaceContext_Store, location |-> location])
                    ELSE Invoke("visit_operand", statement.kids[i], [location |-> location])]
         [] statement.tag = "Nop" -> <<>>

\* visit_assign(block, place, rvalue, location): the call holds the Assign statement
Visitor_super_assign(this) ==
    <<Invoke("visit_place", this.node.kids[1],
             [context |-> PlaceContext_Store, location |-> this.args.location]),
      Invoke("visit_rvalue", this.node.kids[2], [location |-> this.args.location])>>

Visitor_super_terminator(this) ==
    <<Invoke("visit_source_info", this.node.attr.source_info, None),
      Invoke("visit_terminator_kind", this.node.kids[1],
             [block |-> this.args.block, location |-> this.args.location])>>

Visitor_super_terminator_kind(this) ==
    LET kind == this.node
        block == this.args.block
        source_location == this.args.location
        operand(i) == Invoke("visit_operand", kind.kids[i], [location |-> source_location])
        place(i, context) ==
            Invoke("visit_place", kind.kids[i],
                   [context |-> context, location |-> source_location])
    IN
    CASE kind.tag = "Goto" -> Visitor_branches(block, <<kind.attr.target>>)
      [] kind.tag = "SwitchInt" ->
            <<operand(1),
              Invoke("visit_ty", [ty |-> kind.attr.switch_ty],
                     [ty_context |-> TyContext_Location(source_location)])>>
            \o [i \in 1..Len(kind.attr.values) |->
                  Invoke("visit_const_int", [const_int |-> kind.attr.values[i]],
                         [location |-> source_location])]
            \o Visitor_branches(block, kind.attr.targets)
      [] kind.tag \in {"Resume", "Return", "GeneratorDrop", "Unreachable"} -> <<>>
      [] kind.tag = "Drop" ->
            <<place(1, PlaceContext_Drop)>>
            \o Visitor_branches(block, <<kind.attr.target>>)
            \o Visitor_branches(block, kind.attr.unwind)
      [] kind.tag = "DropAndReplace" ->
            <<place(1, PlaceContext_Drop), operand(2)>>
            \o Visitor_branches(block, <<kind.attr.target>>)
            \o Visitor_branches(block, kind.attr.unwind)
      [] kind.tag = "Call" ->
            <<operand(1)>>
            \o [i \in 1..kind.attr.args |-> operand(1 + i)]
            \o (IF kind.attr.destination
                THEN <<place(2 + kind.attr.args, PlaceContext_Call)>>
                     \o Visitor_branches(block, <<kind.attr.target>>)
                ELSE <<>>)
            \o Visitor_branches(block, kind.attr.cleanup)
      [] kind.tag = "Assert" ->
            <<operand(1),
              Invoke("visit_assert_message", kind.kids[2], [location |-> source_location])>>
            \o Visitor_branches(block, <<kind.attr.target>>)
            \o Visitor_branches(block, kind.attr.cleanup)
      [] kind.tag = "Yield" ->
            <<operand(1)>>
            \o Visitor_branches(block, <<kind.attr.resume>>)
            \o Visitor_branches(block, kind.attr.drop)
      [] kind.tag = "FalseEdges" ->
            Visitor_branches(block, <<kind.attr.real_target>>)
            \o Visitor_branches(block, kind.attr.imaginary_targets)

Visitor_super_assert_message(this) ==
    CASE this.node.tag = "BoundsCheck" ->
            <<Invoke("visit_operand", this.node.kids[1], [location |-> this.args.location]),
              Invoke("visit_operand", this.node.kids[2], [location |-> this.args.location])>>
      [] this.node.tag = "Math" -> <<>>
      [] this.node.tag = "GeneratorResumedAfterReturn" -> <<>>
      [] this.node.tag = "GeneratorResumedAfterPanic" -> <<>>

Visitor_super_rvalue(this) ==
    LET rvalue == this.node
        location == this.args.location
        operand(i) == Invoke("visit_operand", rvalue.kids[i], [location |-> location])
        place(i, context) ==
            Invoke("visit_place", rvalue.kids[i], [context |-> context, location |-> location])
        ty(t) == Invoke("visit_ty", [ty |-> t], [ty_context |-> TyContext_Location(location)])
    IN
    CASE rvalue.tag = "Use" -> <<operand(1)>>
      [] rvalue.tag = "Repeat" ->
            <<operand(1),
              Invoke("visit_const_usize", [const_usize |-> rvalue.attr.length],
                     [location |-> location])>>
      [] rvalue.tag = "Ref" ->
            <<Invoke("visit_region", [region |-> rvalue.attr.r], [location |-> location]),
              place(1, PlaceContext_Borrow(rvalue.attr.r, rvalue.attr.bk))>>
      [] rvalue.tag = "Len" -> <<place(1, PlaceContext_Inspect)>>
      [] rvalue.tag = "Cast" -> <<operand(1), ty(rvalue.attr.ty)>>
      [] rvalue.tag \in {"BinaryOp", "CheckedBinaryOp"} -> <<operand(1), operand(2)>>
      [] rvalue.tag = "UnaryOp" -> <<operand(1)>>
      [] rvalue.tag = "Discriminant" -> <<place(1, PlaceContext_Inspect)>>
      [] rvalue.tag = "NullaryOp" -> <<ty(rvalue.attr.ty)>>
      [] rvalue.tag = "Aggregate" ->
            LET kind == rvalue.attr.kind
                def_id == Invoke("visit_def_id", [def_id |-> kind.def_id],
                                 [location |-> location])
                closure_substs ==
                    Invoke("visit_closure_substs", [substs |-> kind.closure_substs],
                           [location |-> location])
            IN
            (CASE kind.tag = "Array" -> <<ty(kind.ty)>>
               [] kind.tag = "Tuple" -> <<>>
               [] kind.tag = "Adt" ->
                    <<Invoke("visit_substs", [substs |-> kind.substs],
                             [location |-> location])>>
               [] kind.tag = "Closure" -> <<def_id, closure_substs>>
               [] kind.tag = "Generator" ->
                    <<def_id, closure_substs,
                      Invoke("visit_generator_interior", [interior |-> kind.interior],
                             [location |-> location])>>)
            \o [i \in 1..Len(rvalue.kids) |-> operand(i)]

Visitor_super_operand(this) ==
    CASE this.node.tag = "Copy" ->
            <<Invoke("visit_place", this.node.kids[1],
                     [context |-> PlaceContext_Copy, location |-> this.args.location])>>
      [] this.node.tag = "Move" ->
            <<Invoke("visit_place", this.node.kids[1],
                     [context |-> PlaceContext_Move, location |-> this.args.location])>>
      [] this.node.tag = "Constant" ->
            <<Invoke("visit_constant", this.node.kids[1], [location |-> this.args.location])>>

\* super_place of the Visitor
Visitor_super_place(this) ==
    CASE this.node.tag = "Local" ->
            <<Invoke("visit_local", [local |-> this.node.attr.local], this.args)>>
      [] this.node.tag = "Static" -> <<Invoke("visit_static", this.node, this.args)>>
      [] this.node.tag = "Projection" -> <<Invoke("visit_projection", this.node, this.args)>>

Visitor_super_static(this) ==
    <<Invoke("visit_def_id", [def_id |-> this.node.attr.def_id],
             [location |-> this.args.location]),
      Invoke("visit_ty", [ty |-> this.node.attr.ty],
             [ty_context |-> TyContext_Location(this.args.location)])>>

\* A super_projection that hands the outer context on as it is
Visitor_projection_keeps_context(this) ==
    <<Invoke("visit_place", this.node.kids[1], this.args),
      Invoke("visit_projection_elem", this.node.kids[2], this.args)>>

Visitor_super_projection(this) ==
    LET context == IF is_mutating_use(this.args.context)
                   THEN PlaceContext_Projection("Mut")
                   ELSE PlaceContext_Projection("Not")
        args == [context |-> context, location |-> this.args.location]
    IN <<Invoke("visit_place", this.node.kids[1], args),
         Invoke("visit_projection_elem", this.node.kids[2], args)>>

Visitor_super_projection_elem(this) ==
    CASE this.node.tag = "Deref" -> <<>>
      [] this.node.tag = "Subslice" -> <<>>
      [] this.node.tag = "Field" ->
            <<Invoke("visit_ty", [ty |-> this.node.attr.ty],
                     [ty_context |-> TyContext_Location(this.args.location)])>>
      [] this.node.tag = "Index" ->
            <<Invoke("visit_local", [local |-> this.node.attr.local],
                     [context |-> PlaceContext_Copy, location |-> this.args.location])>>
      [] this.node.tag = "ConstantIndex" -> <<>>
      [] this.node.tag = "Downcast" -> <<>>

Visitor_super_local_decl(this) ==
    <<Invoke("visit_ty", [ty |-> this.node.ty],
             [ty_context |-> TyContext_LocalDecl(this.args.local, this.node.source_info)]),
      Invoke("visit_source_info", this.node.source_info, None),
      Invoke("visit_visibility_scope", [scope |-> this.node.lexical_scope], None)>>

Visitor_super_constant(this) ==
    <<Invoke("visit_span", [span |-> this.node.attr.span], None),
      Invoke("visit_ty", [ty |-> this.node.attr.ty],
             [ty_context |-> TyContext_Location(this.args.location)]),
      Invoke("visit_literal", this.node.kids[1], [location |-> this.args.location])>>

Visitor_super_literal(this) ==
    CASE this.node.tag = "Value" ->
            <<Invoke("visit_const", [const |-> this.node.attr.value],
                     [location |-> this.args.location])>>
      [] this.node.tag = "Promoted" -> <<>>

Visitor_super_source_info(this) ==
    <<Invoke("visit_span", [span |-> this.node.span], None),
      Invoke("visit_visibility_scope", [scope |-> this.node.scope], None)>>

----------------------------------------------------------------------------
(* The MIR visitor: a traversal, call by call. *)

\* The super_X method the default visit_X calls
Visitor_super(this) ==
    CASE this.method = "visit_mir" -> Visitor_super_mir(this)
      [] this.method = "visit_basic_block_data" -> Visitor_super_basic_block_data(this)
      [] this.method = "visit_visibility_scope_data" ->
            Visitor_super_visibility_scope_data(this)
      [] this.method = "visit_statement" -> Visitor_super_statement(this)
      [] this.method = "visit_assign" -> Visitor_super_assign(this)
      [] this.method = "visit_terminator" -> Visitor_super_terminator(this)
      [] this.method = "visit_terminator_kind" -> Visitor_super_terminator_kind(this)
      [] this.method = "visit_assert_message" -> Visitor_super_assert_message(this)
      [] this.method = "visit_rvalue" -> Visitor_super_rvalue(this)
      [] this.method = "visit_operand" -> Visitor_super_operand(this)
      [] this.method = "visit_place" -> Visitor_super_place(this)
      [] this.method = "visit_static" -> Visitor_super_static(this)
      [] this.method = "visit_projection" -> Visitor_super_projection(this)
      [] this.method = "visit_projection_elem" -> Visitor_super_projection_elem(this)
      [] this.method = "visit_local_decl" -> Visitor_super_local_decl(this)
      [] this.method = "visit_constant" -> Visitor_super_constant(this)
      [] this.method = "visit_literal" -> Visitor_super_literal(this)
      [] this.method = "visit_source_info" -> Visitor_super_source_info(this)
      [] OTHER -> <<>>

\* The visit_X methods whose super_X has an empty body, and visit_local, whose
\* default has one
LeafMethods ==
    {"visit_visibility_scope", "visit_branch", "visit_def_id", "visit_span", "visit_ty",
     "visit_region", "visit_const", "visit_substs", "visit_closure_substs",
     "visit_generator_interior", "visit_const_int", "visit_const_usize", "visit_local"}

\* An override that calls self.super_X
Visitor_override_with_super(this) == Visitor_super(this)

\* The visit_X of a Visitor that overrides it and does not call self.super_X
Visitor_override(this) == <<>>

\* The calls take their place in the tree of calls: the k-th call made by a call
\* has the path of that call followed by k
WithPaths(calls, path) ==
    [k \in 1..Len(calls) |-> [calls[k] EXCEPT !.path = Append(path, k)]]

\* The call on top of the stack begins and makes its calls, which are next in turn
Visitor_call(method, calls) ==
    /\ stack # <<>>
    /\ Head(stack).method = method
    /\ trace' = Append(trace, Head(stack))
    /\ stack' = WithPaths(calls, Head(stack).path) \o Tail(stack)
    /\ UNCHANGED <<mir, overridden, pass_vars>>

\* The default visit_X, for a method the Visitor does not override
Visitor_default(method) ==
    /\ overridden # method
    /\ Visitor_call(method, Visitor_super(Head(stack)))

Visitor_visit_mir ==
    /\ overridden # "visit_mir"
    /\ Visitor_call("visit_mir", Visitor_super_mir(Head(stack)))
Visitor_visit_basic_block_data ==
    /\ overridden # "visit_basic_block_data"
    /\ Visitor_call("visit_basic_block_data", Visitor_super_basic_block_data(Head(stack)))
Visitor_visit_visibility_scope_data ==
    /\ overridden # "visit_visibility_scope_data"
    /\ Visitor_call("visit_visibility_scope_data", Visitor_super_visibility_scope_data(Head(stack)))
Visitor_visit_statement ==
    /\ overridden # "visit_statement"
    /\ Visitor_call("visit_statement", Visitor_super_statement(Head(stack)))
Visitor_visit_assign ==
    /\ overridden # "visit_assign"
    /\ Visitor_call("visit_assign", Visitor_super_assign(Head(stack)))
Visitor_visit_terminator ==
    /\ overridden # "visit_terminator"
    /\ Visitor_call("visit_terminator", Visitor_super_terminator(Head(stack)))
Visitor_visit_terminator_kind ==
    /\ overridden # "visit_terminator_kind"
    /\ Visitor_call("visit_terminator_kind", Visitor_super_terminator_kind(Head(stack)))
Visitor_visit_assert_message ==
    /\ overridden # "visit_assert_message"
    /\ Visitor_call("visit_assert_message", Visitor_super_assert_message(Head(stack)))
Visitor_visit_rvalue ==
    /\ overridden # "visit_rvalue"
    /\ Visitor_call("visit_rvalue", Visitor_super_rvalue(Head(stack)))
Visitor_visit_operand ==
    /\ overridden # "visit_operand"
    /\ Visitor_call("visit_operand", Visitor_super_operand(Head(stack)))
Visitor_visit_place ==
    /\ overridden # "visit_place"
    /\ Visitor_call("visit_place", Visitor_super_place(Head(stack)))
Visitor_visit_static ==
    /\ overridden # "visit_static"
    /\ Visitor_call("visit_static", Visitor_super_static(Head(stack)))
Visitor_visit_projection ==
    /\ overridden # "visit_projection"
    /\ Visitor_call("visit_projection", Visitor_super_projection(Head(stack)))
Visitor_visit_projection_elem ==
    /\ overridden # "visit_projection_elem"
    /\ Visitor_call("visit_projection_elem", Visitor_super_projection_elem(Head(stack)))
Visitor_visit_local_decl ==
    /\ overridden # "visit_local_decl"
    /\ Visitor_call("visit_local_decl", Visitor_super_local_decl(Head(stack)))
Visitor_visit_constant ==
    /\ overridden # "visit_constant"
    /\ Visitor_call("visit_constant", Visitor_super_constant(Head(stack)))
Visitor_visit_literal ==
    /\ overridden # "visit_literal"
    /\ Visitor_call("visit_literal", Visitor_super_literal(Head(stack)))
Visitor_visit_source_info ==
    /\ overridden # "visit_source_info"
    /\ Visitor_call("visit_source_info", Visitor_super_source_info(Head(stack)))

\* A visit_X with nothing beneath it
Visitor_visit_leaf ==
    /\ stack # <<>>
    /\ Head(stack).method \in LeafMethods
    /\ Visitor_default(Head(stack).method)

\* The visit_X the Visitor overrides
Visitor_visit_overridden ==
    /\ stack # <<>>
    /\ Head(stack).method = overridden
    /\ Visitor_call(overridden, Visitor_override(Head(stack)))

NextVisitor ==
    \/ Visitor_visit_mir
    \/ Visitor_visit_basic_block_data
    \/ Visitor_visit_visibility_scope_data
    \/ Visitor_visit_statement
    \/ Visitor_visit_assign
    \/ Visitor_visit_terminator
    \/ Visitor_visit_terminator_kind
    \/ Visitor_visit_assert_message
    \/ Visitor_visit_rvalue
    \/ Visitor_visit_operand
    \/ Visitor_visit_place
    \/ Visitor_visit_static
    \/ Visitor_visit_projection
    \/ Visitor_visit_projection_elem
    \/ Visitor_visit_local_decl
    \/ Visitor_visit_constant
    \/ Visitor_visit_literal
    \/ Visitor_visit_source_info
    \/ Visitor_visit_leaf
    \/ Visitor_visit_overridden

----------------------------------------------------------------------------
(* The MIR visitor: the Mirs walked. *)

SampleSourceInfo == SourceInfo("span", 1)
ConstantOperand == Operand_Constant(Constant("span", "T", Literal_Value("value")))
PromotedOperand == Operand_Constant(Constant("span", "T", Literal_Promoted))
BorrowKinds == {"Shared", "Unique", "Mut"}
OtherPlace == Place_Local(2)
StaticPlace == Place_Static("def_id", "T")

\* The projection elements
PlaceElems ==
    <<ProjectionElem_Field(0, "T"), ProjectionElem_Index(2), ProjectionElem_Deref,
      ProjectionElem_Subslice, ProjectionElem_ConstantIndex, ProjectionElem_Downcast>>

\* The place of local 1 under `depth` projections, the elements taken in turn
RECURSIVE PlaceChain(_)
PlaceChain(depth) ==
    IF depth = 0 THEN Place_Local(1)
    ELSE Place_Projection(PlaceChain(depth - 1), PlaceElems[((depth - 1) % 6) + 1])

\* Places: local 1 under up to MaxDepth projections, a static, and a static under
\* each projection element
SamplePlaces ==
    {PlaceChain(d) : d \in 0..MaxDepth} \cup {StaticPlace}
        \cup {Place_Projection(StaticPlace, PlaceElems[i]) : i \in 1..6}

AggregateKinds ==
    {AggregateKind_Array("T"), AggregateKind_Tuple, AggregateKind_Adt("substs"),
     AggregateKind_Closure("def_id", "substs"),
     AggregateKind_Generator("def_id", "substs", "interior")}

\* Every kind of rvalue, reading the place q
Rvalues(q) ==
    {Rvalue_Use(Operand_Copy(q)), Rvalue_Use(Operand_Move(q)), Rvalue_Use(ConstantOperand),
     Rvalue_Repeat(Operand_Copy(q), 3), Rvalue_Len(q), Rvalue_Cast(Operand_Move(q), "U"),
     Rvalue_BinaryOp(Operand_Copy(q), ConstantOperand),
     Rvalue_CheckedBinaryOp(Operand_Copy(q), Operand_Copy(q)),
     Rvalue_UnaryOp(PromotedOperand), Rvalue_Discriminant(q), Rvalue_NullaryOp("T")}
    \cup {Rvalue_Ref("region", bk, q) : bk \in BorrowKinds}
    \cup {Rvalue_Aggregate(kind, <<Operand_Copy(q), ConstantOperand>>) : kind \in AggregateKinds}

\* Every kind of statement, writing the place p and reading the place q
Statements(p, q) ==
    {StatementKind_Assign(SampleSourceInfo, p, rvalue) : rvalue \in Rvalues(q)}
    \cup {StatementKind_EndRegion(SampleSourceInfo),
          StatementKind_Validate(SampleSourceInfo, <<p, q>>, <<"T", "U">>),
          StatementKind_SetDiscriminant(SampleSourceInfo, p),
          StatementKind_StorageLive(SampleSourceInfo, 2),
          StatementKind_StorageDead(SampleSourceInfo, 2),
          StatementKind_InlineAsm(SampleSourceInfo, <<p, q>>,
                                  <<Operand_Copy(q), ConstantOperand>>),
          StatementKind_Nop(SampleSourceInfo)}

\* Every kind of terminator; every branch goes back to block 0
TerminatorKinds(p, q) ==
    {TerminatorKind_Goto(0),
     TerminatorKind_SwitchInt(Operand_Copy(q), "T", <<1, 2>>, <<0, 0, 0>>),
     TerminatorKind_Resume, TerminatorKind_Return, TerminatorKind_GeneratorDrop,
     TerminatorKind_Unreachable,
     TerminatorKind_Drop(p, 0, <<>>), TerminatorKind_Drop(p, 0, <<0>>),
     TerminatorKind_DropAndReplace(p, Operand_Move(q), 0, <<0>>),
     TerminatorKind_Call(ConstantOperand, <<Operand_Copy(q), Operand_Move(q)>>, <<p>>, 0, <<0>>),
     TerminatorKind_Call(Operand_Copy(q), <<>>, <<>>, 0, <<>>),
     TerminatorKind_Assert(Operand_Copy(q),
                           AssertMessage_BoundsCheck(Operand_Copy(q), ConstantOperand),
                           0, <<>>),
     TerminatorKind_Assert(ConstantOperand, AssertMessage_Math, 0, <<0>>),
     TerminatorKind_Assert(ConstantOperand, AssertMessage_GeneratorResumedAfterReturn, 0, <<>>),
     TerminatorKind_Assert(ConstantOperand, AssertMessage_GeneratorResumedAfterPanic, 0, <<>>),
     TerminatorKind_Yield(Operand_Move(q), 0, <<0>>),
     TerminatorKind_FalseEdges(0, <<0, 0>>)}

\* One statement or terminator for every context a place is visited in
StatementsOfPlace(p) ==
    {StatementKind_Assign(SampleSourceInfo, p, Rvalue_Use(ConstantOperand)),
     StatementKind_Assign(SampleSourceInfo, OtherPlace, Rvalue_Len(p)),
     StatementKind_Assign(SampleSourceInfo, OtherPlace, Rvalue_Use(Operand_Copy(p))),
     StatementKind_Assign(SampleSourceInfo, OtherPlace, Rvalue_Use(Operand_Move(p))),
     StatementKind_Validate(SampleSourceInfo, <<p>>, <<"T">>)}
    \cup {StatementKind_Assign(SampleSourceInfo, OtherPlace, Rvalue_Ref("region", bk, p)) :
            bk \in BorrowKinds}

TerminatorKindsOfPlace(p) ==
    {TerminatorKind_Drop(p, 0, <<>>),
     TerminatorKind_Call(ConstantOperand, <<>>, <<p>>, 0, <<>>)}

\* The statements that come before the one looked at
RECURSIVE Fillers(_)
Fillers(n) ==
    IF n = 0 THEN <<>>
    ELSE Fillers(n - 1) \o <<IF n % 2 = 1
                             THEN StatementKind_StorageLive(SampleSourceInfo, 2)
                             ELSE StatementKind_Nop(SampleSourceInfo)>>

\* A block that jumps back to block 0
LoopBlock ==
    BasicBlockData(<<StatementKind_StorageDead(SampleSourceInfo, 2)>>,
                   <<Terminator(SampleSourceInfo, TerminatorKind_Goto(0))>>)

\* The first blocks: up to MaxStatements statements, of which the last one is any
\* statement, and a Return; or fewer than MaxStatements statements and any
\* terminator, or none
FirstBlocks ==
    LET statements == Statements(PlaceChain(1), StaticPlace)
                        \cup UNION {StatementsOfPlace(p) : p \in SamplePlaces}
        kinds == TerminatorKinds(PlaceChain(1), StaticPlace)
                        \cup UNION {TerminatorKindsOfPlace(p) : p \in SamplePlaces}
    IN {BasicBlockData(Fillers(n) \o <<s>>,
                       <<Terminator(SampleSourceInfo, TerminatorKind_Return)>>) :
            n \in 0..(MaxStatements - 1), s \in statements}
       \cup {BasicBlockData(Fillers(n), <<Terminator(SampleSourceInfo, kind)>>) :
            n \in 0..(MaxStatements - 1), kind \in kinds}
       \cup {BasicBlockData(Fillers(n), <<>>) : n \in 0..(MaxStatements - 1)}

\* A first block and up to MaxBlocks - 1 blocks that jump back to it, two visibility
\* scopes and one local
Mirs ==
    {Mir(<<first>> \o [i \in 1..n |-> LoopBlock],
         <<VisibilityScopeData("span", <<>>), VisibilityScopeData("span", <<0>>)>>,
         "T", <<LocalDecl("T", SampleSourceInfo, 1)>>, "span") :
        first \in FirstBlocks, n \in 0..(MaxBlocks - 1)}

\* The Visitors: the one that overrides nothing, and those that override one method
Visitors ==
    {"none", "visit_statement", "visit_terminator", "visit_rvalue", "visit_operand",
     "visit_place", "visit_projection"}

\* run_pass is not at work during a traversal
NoPass ==
    /\ parent_captures = <<>>
    /\ child_captures = <<>>
    /\ num_args = 0
    /\ tcx_coroutine_kind = "None"
    /\ body = None
    /\ pc = "done"
    /\ target = "body"
    /\ invocations = 0
    /\ coroutine_kind = "unset"
    /\ parent_pos = 0
    /\ child_pos = 0
    /\ field_used_at_least_once = FALSE
    /\ field_remapping = EmptyMap
    /\ by_move_body = None
    /\ visit_pos = 0
    /\ failure = "none"

\* visitor.visit_mir(mir) has been called
InitVisitor ==
    /\ mir \in Mirs
    /\ overridden \in Visitors
    /\ stack = <<Invoke("visit_mir", mir, None)>>
    /\ trace = <<>>
    /\ NoPass

SpecVisitor == InitVisitor /\ [][NextVisitor]_vars

----------------------------------------------------------------------------
(* The MIR visitor: properties. *)

\* Every value of PlaceContext
PlaceContexts ==
    {PlaceContext_Store, PlaceContext_Call, PlaceContext_Drop, PlaceContext_Inspect,
     PlaceContext_Copy, PlaceContext_Move, PlaceContext_StorageLive,
     PlaceContext_StorageDead, PlaceContext_Validate}
    \cup {PlaceContext_Borrow("region", kind) : kind \in BorrowKinds}
    \cup {PlaceContext_Projection(mutability) : mutability \in {"Mut", "Not"}}

\* The contexts the calls begun so far were given
ContextsVisited ==
    {trace[i].args.context : i \in {j \in 1..Len(trace) : "context" \in DOMAIN trace[j].args}}

MutatingContexts ==
    {PlaceContext_Store, PlaceContext_Call, PlaceContext_Drop,
     PlaceContext_Borrow("region", "Mut"), PlaceContext_Projection("Mut")}

NonMutatingContexts ==
    {PlaceContext_Inspect, PlaceContext_Borrow("region", "Shared"),
     PlaceContext_Borrow("region", "Unique"), PlaceContext_Projection("Not"),
     PlaceContext_Copy, PlaceContext_Move}

NeitherContexts ==
    {PlaceContext_StorageLive, PlaceContext_StorageDead, PlaceContext_Validate}

\* C18: is_mutating_use holds exactly of Store, Call, Drop, Borrow of kind Mut and
\* Projection(Mut); is_nonmutating_use holds exactly of Inspect, Borrow of kind Shared
\* or Unique, Projection(Not), Copy and Move; StorageLive, StorageDead and Validate
\* satisfy neither; no context satisfies both; is_use holds exactly when one of the
\* two does. This is so of every context value, and of every context a traversal
\* hands to a visit method.
C18_ContextClassification ==
    /\ ContextsVisited \subseteq PlaceContexts
    /\ \A context \in PlaceContexts \cup ContextsVisited :
        /\ is_mutating_use(context) <=> context \in MutatingContexts
        /\ is_nonmutating_use(context) <=> context \in NonMutatingContexts
        /\ context \in NeitherContexts =>
                ~is_mutating_use(context) /\ ~is_nonmutating_use(context)
        /\ ~(is_mutating_use(context) /\ is_nonmutating_use(context))
        /\ is_use(context) <=> (is_mutating_use(context) \/ is_nonmutating_use(context))
        /\ is_use(context) <=> context \notin NeitherContexts

\* A finished traversal that met a mutating context, a non-mutating one and one
\* that is neither
C18_Witness ==
    /\ stack = <<>>
    /\ PlaceContext_Projection("Mut") \in ContextsVisited
    /\ PlaceContext_Copy \in ContextsVisited
    /\ PlaceContext_StorageLive \in ContextsVisited

\* The calls of a traversal by the Visitor that overrides nothing, in the order
\* in which they begin: calls are the calls still to begin, begun those begun
RECURSIVE DefaultRun(_, _)
DefaultRun(calls, begun) ==
    IF calls = <<>> THEN begun
    ELSE DefaultRun(WithPaths(Visitor_super(Head(calls)), Head(calls).path) \o Tail(calls),
                    Append(begun, Head(calls)))

\* The default traversal of the Mir being walked
DefaultTrace == DefaultRun(<<Invoke("visit_mir", mir, None)>>, <<>>)

\* The places, in the tree of calls, of the calls of the overridden method in a
\* sequence of calls
OverriddenPaths(calls) ==
    {calls[i].path : i \in {j \in 1..Len(calls) : calls[j].method = overridden}}

\* The call was made, directly or not, by one of the calls at the paths
Beneath(this, paths) ==
    \E k \in 0..(Len(this.path) - 1) : SubSeq(this.path, 1, k) \in paths

\* The calls among `calls` that are not beneath a call of the overridden method
Outermost(calls) ==
    LET paths == OverriddenPaths(calls)
        Outside(this) == ~Beneath(this, paths)
    IN SelectSeq(calls, Outside)

CallsOf(calls, method) ==
    LET Is(this) == this.method = method IN SelectSeq(calls, Is)

CallsNotOf(calls, method) ==
    LET IsNot(this) == this.method # method IN SelectSeq(calls, IsNot)

TraversalDone == mir # None /\ stack = <<>>

\* The claim as stated: the overriding method receives every node of its kind that
\* the default traversal reaches, nothing is visited beneath those nodes, and the
\* calls of all other methods outside those nodes are those of the default traversal
C19_ReceivesEveryNode ==
    TraversalDone /\ overridden # "none" =>
        /\ CallsOf(trace, overridden) = CallsOf(DefaultTrace, overridden)
        /\ \A i \in 1..Len(trace) : ~Beneath(trace[i], OverriddenPaths(trace))
        /\ CallsNotOf(trace, overridden) = CallsNotOf(Outermost(DefaultTrace), overridden)

\* C19: a Visitor that overrides one visit_X and does not call super_X receives, of
\* the nodes of kind X the default traversal reaches, exactly those that are not
\* beneath another node of kind X (the base place of a projection is beneath the
\* projection's place); nothing beneath the nodes it receives is visited, so with
\* visit_place overridden visit_projection, visit_projection_elem and visit_static
\* are never called and visit_local is called for storage statements only; all
\* other calls are those of the default traversal, in the same order.
C19_OverrideIsolation ==
    TraversalDone =>
        /\ trace = Outermost(DefaultTrace)
        /\ \A i \in 1..Len(trace) : ~Beneath(trace[i], OverriddenPaths(trace))
        /\ overridden = "visit_place" =>
            \A i \in 1..Len(trace) :
                /\ trace[i].method \notin
                        {"visit_projection", "visit_projection_elem", "visit_static"}
                /\ trace[i].method = "visit_local" =>
                        trace[i].args.context \in
                            {PlaceContext_StorageLive, PlaceContext_StorageDead}

\* A finished traversal by a Visitor that overrides visit_place, of a Mir with a
\* projection: the override was given the projection's place, and the default
\* traversal reaches places that it was not given
C19_Witness ==
    /\ TraversalDone
    /\ overridden = "visit_place"
    /\ \E i \in 1..Len(trace) :
        trace[i].method = "visit_place" /\ trace[i].node.tag = "Projection"
    /\ Len(CallsOf(trace, "visit_place")) < Len(CallsOf(DefaultTrace, "visit_place"))

\* The nodes of a tree, every node before its children and the children in order
RECURSIVE Preorder(_), PreorderOfAll(_)
Preorder(node) == <<node>> \o PreorderOfAll(node.kids)
PreorderOfAll(nodes) ==
    IF nodes = <<>> THEN <<>> ELSE Preorder(Head(nodes)) \o PreorderOfAll(Tail(nodes))

\* The nodes of one sort in the Mir being walked, in that order
NodesOfSort(sort) ==
    LET Is(node) == node.sort = sort IN SelectSeq(Preorder(mir), Is)

\* The nodes the calls of a method begun so far were given, in the order of the calls
Visited(method) ==
    LET calls == CallsOf(trace, method) IN [i \in 1..Len(calls) |-> calls[i].node]

\* The visit method of each sort of node
VisitMethodOf ==
    [BasicBlockData |-> "visit_basic_block_data", Statement |-> "visit_statement",
     Terminator |-> "visit_terminator", TerminatorKind |-> "visit_terminator_kind",
     AssertMessage |-> "visit_assert_message", Rvalue |-> "visit_rvalue",
     Operand |-> "visit_operand", Place |-> "visit_place",
     PlaceElem |-> "visit_projection_elem", Constant |-> "visit_constant",
     Literal |-> "visit_literal"]

\* The calls of visit_statement and visit_terminator made for a block
CallsInBlock(block) ==
    LET In(this) ==
            /\ this.method \in {"visit_statement", "visit_terminator"}
            /\ this.args.block = block
    IN SelectSeq(trace, In)

\* C20: the default traversal started by visit_mir visits every basic block once, in
\* index order, however the terminators branch, and never more blocks than the Mir
\* has; in each block every statement once, in order, and then the terminator if
\* there is one, each at its own location; and every node of every sort beneath
\* them (places, operands, constants and the rest) once, parents before children
\* and children in order, so that counting the calls of a visit method gives the
\* number of nodes of its sort.
C20_CoverageCompleteness ==
    /\ mir # None =>
        Len(CallsOf(trace, "visit_basic_block_data")) <= Len(mir.kids)
    /\ TraversalDone /\ overridden = "none" =>
        /\ LET blocks == CallsOf(trace, "visit_basic_block_data")
           IN /\ Len(blocks) = Len(mir.kids)
              /\ \A i \in 1..Len(blocks) :
                    /\ blocks[i].node = mir.kids[i]
                    /\ blocks[i].args.block = i - 1
                    /\ LET data == mir.kids[i]
                           within == CallsInBlock(i - 1)
                       IN /\ Len(within) = Len(data.kids)
                          /\ \A k \in 1..Len(within) :
                                /\ within[k].node = data.kids[k]
                                /\ within[k].path = Append(blocks[i].path, k)
                                /\ within[k].args.location = Location(i - 1, k - 1)
                                /\ within[k].method =
                                        IF k <= data.attr.statements
                                        THEN "visit_statement" ELSE "visit_terminator"
        /\ \A sort \in DOMAIN VisitMethodOf :
                /\ Visited(VisitMethodOf[sort]) = NodesOfSort(sort)
                /\ Len(CallsOf(trace, VisitMethodOf[sort])) = Len(NodesOfSort(sort))

\* A finished default traversal of a Mir whose last block jumps back to the first,
\* and whose first block has a statement and a terminator with places, operands
\* and constants in them
C20_Witness ==
    /\ TraversalDone
    /\ overridden = "none"
    /\ Len(mir.kids) = MaxBlocks
    /\ mir.kids[1].attr.statements = MaxStatements
    /\ mir.kids[1].attr.terminator
    /\ Len(Visited("visit_place")) >= 2
    /\ Len(Visited("visit_operand")) >= 2
    /\ Len(Visited("visit_constant")) >= 1
    /\ \E i \in 1..Len(trace) :
        trace[i].method = "visit_branch" /\ trace[i].node.target = 0

----------------------------------------------------------------------------
(* The MIR visitor: visit_location. *)

\* mir[location.block] and basic_block.statements[location.statement_index] do not
\* panic
LocationInBounds(this) ==
    /\ this.args.location.block < Len(this.node.kids)
    /\ this.args.location.statement_index
            <= this.node.kids[this.args.location.block + 1].attr.statements

\* A visit_location that visits no terminator
Visitor_location_without_terminator(this) ==
    LET location == this.args.location
        basic_block == this.node.kids[location.block + 1]
    IN IF basic_block.attr.statements = location.statement_index
       THEN <<>>
       ELSE <<Invoke("visit_statement", basic_block.kids[location.statement_index + 1],
                     [block |-> location.block, location |-> location])>>

\* visit_location(mir, location), as the calls it makes
Visitor_location(this) ==
    LET location == this.args.location
        basic_block == this.node.kids[location.block + 1]
    IN IF basic_block.attr.statements = location.statement_index
       THEN IF basic_block.attr.terminator
            THEN <<Invoke("visit_terminator", basic_block.kids[location.statement_index + 1],
                          [block |-> location.block, location |-> location])>>
            ELSE <<>>
       ELSE <<Invoke("visit_statement", basic_block.kids[location.statement_index + 1],
                     [block |-> location.block, location |-> location])>>

\* visit_location begins; an index out of bounds ends the program
Visitor_visit_location ==
    /\ stack # <<>>
    /\ Head(stack).method = "visit_location"
    /\ trace' = Append(trace, Head(stack))
    /\ IF LocationInBounds(Head(stack))
       THEN /\ stack' = WithPaths(Visitor_location(Head(stack)), Head(stack).path)
                            \o Tail(stack)
            /\ UNCHANGED failure
       ELSE /\ stack' = <<>>
            /\ failure' = "index out of bounds"
    /\ UNCHANGED <<mir, overridden, inputs, call, body, pc, coroutine_kind, parent_pos,
                   child_pos, field_used_at_least_once, field_remapping, by_move_body,
                   visit_pos>>

\* What a call of visit_location leads to
NextLocation ==
    \/ Visitor_visit_location
    \/ Visitor_visit_statement
    \/ Visitor_visit_assign
    \/ Visitor_visit_terminator
    \/ Visitor_visit_terminator_kind
    \/ Visitor_visit_assert_message
    \/ Visitor_visit_rvalue
    \/ Visitor_visit_operand
    \/ Visitor_visit_place
    \/ Visitor_visit_static
    \/ Visitor_visit_projection
    \/ Visitor_visit_projection_elem
    \/ Visitor_visit_constant
    \/ Visitor_visit_literal
    \/ Visitor_visit_source_info
    \/ Visitor_visit_leaf
    \/ Visitor_visit_overridden

\* The locations asked for: of every block up to MaxBlocks and every index up to
\* one past MaxStatements, those out of bounds included
Locations == {Location(block, index) : block \in 0..MaxBlocks, index \in 0..(MaxStatements + 1)}

\* visitor.visit_location(mir, location) has been called
InitLocation ==
    /\ mir \in Mirs
    /\ overridden \in {"none", "visit_place"}
    /\ \E location \in Locations :
        stack = <<Invoke("visit_location", mir, [location |-> location])>>
    /\ trace = <<>>
    /\ NoPass

SpecLocation == InitLocation /\ [][NextLocation]_vars

\* A call of visit_location has returned
LocationDone ==
    /\ mir # None
    /\ stack = <<>>
    /\ trace # <<>>
    /\ trace[1].method = "visit_location"

\* Of the calls of a traversal started by visit_mir, the visit_statement or
\* visit_terminator call made for the location by super_basic_block_data, and the
\* calls beneath it
AtLocation(calls, location) ==
    LET At(this) ==
            /\ Len(this.path) >= 2
            /\ SubSeq(this.path, 1, 2) = <<location.block + 1, location.statement_index + 1>>
    IN SelectSeq(calls, At)

\* The calls with their paths taken from the n-th call above them
Relative(calls, n) ==
    [i \in 1..Len(calls) |->
        [calls[i] EXCEPT !.path = SubSeq(calls[i].path, n + 1, Len(calls[i].path))]]

\* C21: in the traversal started by visit_mir, super_basic_block_data gives
\* statement i of a block the statement_index i and the terminator the number of
\* statements; for every such location visit_location calls visit_statement or
\* visit_terminator for that same statement or terminator, with the same block and
\* location, and what follows beneath is the same as in the full traversal; for the
\* index that equals the number of statements of a block without terminator it
\* visits nothing.
C21_VisitLocationAgrees ==
    LocationDone /\ LocationInBounds(trace[1]) =>
        LET location == trace[1].args.location
            basic_block == mir.kids[location.block + 1]
            full == DefaultTrace
        IN /\ failure = "none"
           /\ \A i \in 1..Len(full) :
                full[i].method \in {"visit_statement", "visit_terminator"} =>
                    LET index == full[i].args.location.statement_index
                        data == mir.kids[full[i].args.block + 1]
                    IN /\ full[i].args.location.block = full[i].args.block
                       /\ full[i].node = data.kids[index + 1]
                       /\ IF full[i].method = "visit_statement"
                          THEN index < data.attr.statements
                          ELSE index = data.attr.statements
           /\ Relative(Tail(trace), 1) = Relative(AtLocation(Outermost(full), location), 2)
           /\ IF location.statement_index = basic_block.attr.statements
                    /\ ~basic_block.attr.terminator
              THEN Len(trace) = 1
              ELSE /\ Len(trace) >= 2
                   /\ trace[2].node = basic_block.kids[location.statement_index + 1]
                   /\ trace[2].args = [block |-> location.block, location |-> location]
                   /\ trace[2].method =
                        IF location.statement_index < basic_block.attr.statements
                        THEN "visit_statement" ELSE "visit_terminator"

\* visit_location was asked for the terminator of a block that has statements, and
\* the terminator has places in it
C21_Witness ==
    /\ LocationDone
    /\ LocationInBounds(trace[1])
    /\ overridden = "none"
    /\ trace[1].args.location.statement_index >= 1
    /\ Len(trace) >= 2
    /\ trace[2].method = "visit_terminator"
    /\ \E i \in 1..Len(trace) : trace[i].method = "visit_place"

----------------------------------------------------------------------------
(* The by-move body: the match predicate, the cursor, the shape guard, the
   argument prefix, unmatched child captures and repeated runs. *)

\* The pair of captures that the next step of the matching loop hands to
\* child_prefix_matches_parent_projections
ComparesNext ==
    /\ pc = "matching"
    /\ child_pos < Len(Children)
    /\ parent_pos < Len(parent_captures)

\* The parent's projection kinds are a prefix of the child's
KindsArePrefix(parent, child) ==
    /\ Len(parent.projections) <= Len(child.projections)
    /\ \A i \in 1..Len(parent.projections) :
            parent.projections[i].kind = child.projections[i].kind

\* C22: on every pair of upvar-rooted captures that the matching loop compares,
\* child_prefix_matches_parent_projections returns a boolean and does not abort:
\* true iff both captures are of the same variable and the parent's projection kinds
\* are a prefix of the child's, and so false for a child with a shorter path than
\* the parent's or of another variable.
C22_MatchPredicateIsTotal ==
    ComparesNext =>
        LET parent == parent_captures[parent_pos + 1]
            child == Children[child_pos + 1]
        IN /\ ~child_prefix_matches_aborts(parent, child)
           /\ child_prefix_matches_parent_projections(parent, child)
                <=> (parent.var = child.var /\ KindsArePrefix(parent, child))

\* The parent indices recorded for the child captures, in the order of the child
\* captures, never go down
RecordedNondecreasing ==
    \A k1, k2 \in DOMAIN field_remapping :
        k1 <= k2 => field_remapping[k1].remapped_idx <= field_remapping[k2].remapped_idx

\* The child captures mapped to one parent capture are consecutive
RecordedConsecutive ==
    \A k1, k2, k3 \in DOMAIN field_remapping :
        (k1 <= k2 /\ k2 <= k3
            /\ field_remapping[k1].remapped_idx = field_remapping[k3].remapped_idx)
        => field_remapping[k2].remapped_idx = field_remapping[k1].remapped_idx

\* One step taken while run_pass is at its matching loop
CursorStep ==
    pc = "matching" =>
        /\ parent_pos' >= parent_pos
        /\ pc' = "matching" =>
            /\ parent_pos' + child_pos' = parent_pos + child_pos + 1
            /\ parent_pos' + child_pos' <= Len(parent_captures) + Len(Children)
        /\ (pc' = "bug" /\ ComparesNext) =>
            /\ parent_pos + child_pos + 1 <= Len(parent_captures) + Len(Children)
            /\ UNCHANGED <<parent_pos, child_pos, field_remapping>>
        /\ (pc' = "matching" /\ parent_pos' # parent_pos) =>
            /\ ~child_prefix_matches_parent_projections(parent_captures[parent_pos + 1],
                                                        Children[child_pos + 1])
            /\ parent_pos' = parent_pos + 1
            /\ UNCHANGED <<child_pos, field_remapping>>
        /\ child_pos' # child_pos =>
            /\ child_prefix_matches_parent_projections(parent_captures[parent_pos + 1],
                                                       Children[child_pos + 1])
            /\ parent_pos' = parent_pos
            /\ child_pos' = child_pos + 1
            /\ DOMAIN field_remapping' = DOMAIN field_remapping \cup {child_pos + num_args}
            /\ field_remapping'[child_pos + num_args].remapped_idx = parent_pos + num_args
        /\ pc' \in {"visiting", "done"} =>
            /\ child_pos = Len(Children)
            /\ parent_pos' = parent_pos + (IF field_used_at_least_once THEN 1 ELSE 0)

\* C23: the matching loop is a single forward pass. The parent cursor never moves
\* backward; inside the loop it advances, by one, exactly on a non-match, and a
\* match leaves it where it is and records its index; after the last child it
\* advances once more if the last parent was used. So the parent indices recorded
\* for successive child captures never go down, the children mapped to one parent
\* are consecutive, and, every attempt that does not end the pass moving one of
\* the two cursors by one, there are at most P + C attempts.
C23_SingleForwardPass ==
    /\ [](pc = "matching" =>
            /\ parent_pos <= Len(parent_captures)
            /\ child_pos <= Len(Children)
            /\ DOMAIN field_remapping = {c + num_args : c \in 0..(child_pos - 1)}
            /\ \A k \in DOMAIN field_remapping :
                    field_remapping[k].remapped_idx <= parent_pos + num_args)
    /\ [](RecordedNondecreasing /\ RecordedConsecutive)
    /\ [][CursorStep]_vars

\* A finished matching in which the cursor has passed from the first parent capture
\* to the second: one child capture is mapped to each
C23_Witness ==
    /\ MatchingSucceeded
    /\ Len(parent_captures) = 2
    /\ Len(Children) = 2
    /\ parent_pos = 2
    /\ field_remapping[num_args].remapped_idx = num_args
    /\ field_remapping[num_args + 1].remapped_idx = num_args + 1

\* The context a projection hands to its base and its element under an outer context
ProjectionContextOf(context) ==
    IF context \in MutatingContexts
    THEN PlaceContext_Projection("Mut") ELSE PlaceContext_Projection("Not")

\* The place of the call (of the calls begun so far) at a path, 0 if there is none
CallAt(path) ==
    IF \E i \in 1..Len(trace) : trace[i].path = path
    THEN CHOOSE i \in 1..Len(trace) : trace[i].path = path
    ELSE 0

\* Call b is visit_place for a base, at any depth, of the place of call a
IsBaseOf(a, b) ==
    /\ a.method = "visit_place"
    /\ b.method = "visit_place"
    /\ Len(b.path) > Len(a.path)
    /\ SubSeq(b.path, 1, Len(a.path)) = a.path
    /\ \A k \in (Len(a.path) + 1)..Len(b.path) : b.path[k] = 1

\* C24: super_projection (of a Visitor that does not override visit_projection)
\* visits the base place and then the projection element,
\* both with context Projection(Mut) if the outer context is a mutating use and
\* Projection(Not) otherwise, the outer contexts StorageLive, StorageDead and
\* Validate included; so at every depth of a chain of projections the base is
\* visited with Projection(Mut) iff the outermost context is a mutating use.
C24_ProjectionContext ==
    /\ \A context \in PlaceContexts :
        LET calls == Visitor_super_projection(
                        [Invoke("visit_projection", PlaceChain(1), None) EXCEPT
                            !.args = [context |-> context, location |-> Location(0, 0)]])
        IN /\ Len(calls) = 2
           /\ calls[1].method = "visit_place"
           /\ calls[2].method = "visit_projection_elem"
           /\ calls[1].args.context = ProjectionContextOf(context)
           /\ calls[2].args.context = ProjectionContextOf(context)
           /\ context \in NeitherContexts => calls[1].args.context = PlaceContext_Projection("Not")
    /\ TraversalDone =>
        /\ \A i \in 1..Len(trace) :
            (trace[i].method = "visit_projection" /\ overridden # "visit_projection") =>
                LET base == CallAt(Append(trace[i].path, 1))
                    elem == CallAt(Append(trace[i].path, 2))
                IN /\ i < base
                   /\ base < elem
                   /\ trace[base].method = "visit_place"
                   /\ trace[base].node = trace[i].node.kids[1]
                   /\ trace[elem].method = "visit_projection_elem"
                   /\ trace[elem].node = trace[i].node.kids[2]
                   /\ trace[base].args.context = ProjectionContextOf(trace[i].args.context)
                   /\ trace[elem].args.context = ProjectionContextOf(trace[i].args.context)
                   /\ trace[base].args.location = trace[i].args.location
        /\ \A i, j \in 1..Len(trace) :
            IsBaseOf(trace[i], trace[j]) =>
                trace[j].args.context = ProjectionContextOf(trace[i].args.context)

\* A finished default traversal that went down a chain of two projections from a
\* mutating use, and met a base under Projection(Mut)
C24_Witness ==
    /\ TraversalDone
    /\ overridden = "none"
    /\ \E i, j \in 1..Len(trace) :
        /\ IsBaseOf(trace[i], trace[j])
        /\ Len(trace[j].path) = Len(trace[i].path) + 4
        /\ trace[i].args.context = PlaceContext_Store
        /\ trace[j].args.context = PlaceContext_Projection("Mut")
        /\ trace[j].node.tag = "Local"

\* The projections of a place after its leading field
AfterLeadingField(place) == Tail(place.projection)

\* A sequence of projections that is empty or exactly one dereference
EmptyOrOneDeref(projection) ==
    \/ projection = <<>>
    \/ Len(projection) = 1 /\ projection[1].tag = "Deref"

\* C25: for a place that visit_place remaps, if needs_deref is set and the
\* projection directly after the leading field is missing or is not a dereference,
\* visit_place aborts; and whenever the projections that remain after the leading
\* field, and after the peeled dereference, are not empty or exactly one
\* dereference, visit_place aborts: a place it produces keeps, after the new field
\* and the extra projections, nothing or one dereference, the one that remained.
C25_ShapeGuard ==
    \A i \in 1..Len(body.places) :
        (ThroughCapture(body.places[i]) /\ Reached(i)) =>
            LET entry == EntryOf(body.places[i])
                rest == AfterLeadingField(body.places[i])
                peelable == rest # <<>> /\ rest[1].tag = "Deref"
                remaining == IF entry.needs_deref /\ peelable THEN Tail(rest) ELSE rest
            IN /\ (entry.needs_deref /\ ~peelable) => AbortedAt(i)
               /\ ~EmptyOrOneDeref(remaining) => AbortedAt(i)
               /\ Rewritten(i) =>
                    /\ EmptyOrOneDeref(remaining)
                    /\ SuffixOf(entry, by_move_body.places[i].projection) = remaining

\* visit_place has failed on a place with two dereferences after the leading field,
\* through an entry that needs no dereference peeled and has proper extra projections
C25_Witness ==
    \E i \in 1..Len(body.places) :
        /\ ThroughCapture(body.places[i])
        /\ AbortedAt(i)
        /\ ~EntryOf(body.places[i]).needs_deref
        /\ ExtraProjectionsWellFormed(EntryOf(body.places[i]))
        /\ Len(body.places[i].projection) = 3
        /\ body.places[i].projection[2].tag = "Deref"
        /\ body.places[i].projection[3].tag = "Deref"

\* A place of the capture struct local that does not start with a field after the
\* arguments: no projection, a first projection that is no field, or the field of
\* an argument
OutsideUpvarFields(place) ==
    /\ place.local = CAPTURE_STRUCT_LOCAL
    /\ \/ place.projection = <<>>
       \/ place.projection[1].tag # "Field"
       \/ place.projection[1].idx < num_args

\* C26: with num_args arguments captured first, every key of field_remapping is a
\* field index of at least num_args: the child capture at position c after the
\* arguments has the key c + num_args, and its entry the field p + num_args of the
\* parent capture p it matched. So a place of the capture struct local whose
\* leading field index is below num_args, whose first projection is not a field, or
\* that has no projection, is left as it is by visit_place.
C26_ArgumentPrefix ==
    /\ \A key \in DOMAIN field_remapping :
        /\ key >= num_args
        /\ key - num_args < Len(Children)
        /\ field_remapping[key].remapped_idx >= num_args
        /\ field_remapping[key].remapped_idx - num_args < Len(parent_captures)
        /\ child_prefix_matches_parent_projections(EntryParent(key), EntryChild(key))
    /\ \A i \in 1..Len(body.places) :
        (OutsideUpvarFields(body.places[i]) /\ Reached(i)) =>
            /\ ~ThroughCapture(body.places[i])
            /\ Rewritten(i)
            /\ by_move_body.places[i] = body.places[i]

\* With one argument, visit_place has passed a place through field 0 of the capture
\* struct local, the argument, while field 1 is remapped
C26_Witness ==
    /\ num_args = 1
    /\ DOMAIN field_remapping = {1}
    /\ \E i \in 1..Len(body.places) :
        /\ Rewritten(i)
        /\ body.places[i].local = CAPTURE_STRUCT_LOCAL
        /\ body.places[i].projection # <<>>
        /\ body.places[i].projection[1].tag = "Field"
        /\ body.places[i].projection[1].idx = 0
        /\ by_move_body.places[i] = body.places[i]

\* The matching loop has reached a child capture that matches none of the parent
\* captures from the cursor on
UnmatchableChild ==
    /\ pc = "matching"
    /\ child_pos < Len(Children)
    /\ \A p \in (parent_pos + 1)..Len(parent_captures) :
            ~Refines(parent_captures[p], Children[child_pos + 1])

\* The failures that the skipping of an unused parent capture and the exhausted
\* cursor end the pass with
SkipOrExhausted ==
    {"captured but not used in the child coroutine", "we ran out of parent captures!"}

\* No child capture is left out of a remapping that the pass goes on with, and
\* every entry is of a parent capture that its child capture matches
NoChildLeftOut ==
    MatchingSucceeded =>
        /\ EveryChildMapped
        /\ \A key \in DOMAIN field_remapping : Refines(EntryParent(key), EntryChild(key))

\* The claim as stated: a child capture that matches none of the remaining parent
\* captures ends the pass in one of the two failures, of the unused parent capture
\* that would be skipped or of the exhausted cursor
C27_TwoFailures ==
    /\ [][UnmatchableChild =>
            \/ UnmatchableChild' /\ child_pos' = child_pos /\ parent_pos' > parent_pos
            \/ pc' = "bug" /\ failure' \in SkipOrExhausted]_vars
    /\ []NoChildLeftOut

\* C27: once the matching loop reaches a child capture that matches none of the
\* remaining parent captures, every step either skips a used parent capture, the
\* child still unmatched, or ends the pass in a fatal failure: an unused parent
\* capture would have to be skipped, the parent cursor is exhausted, or the match
\* predicate's own assertion fails because the child has fewer projections than the
\* parent capture under the cursor. No entry is recorded for that child, and a pass
\* that goes on has an entry for every child capture, of a parent it matches.
C27_UnmatchedChildIsFatal ==
    /\ [][UnmatchableChild =>
            /\ field_remapping' = field_remapping
            /\ \/ UnmatchableChild' /\ child_pos' = child_pos /\ parent_pos' > parent_pos
               \/ /\ pc' = "bug"
                  /\ failure' \in SkipOrExhausted \cup {"child_prefix_matches_parent_projections"}
                  /\ failure' = "child_prefix_matches_parent_projections" =>
                        /\ parent_pos < Len(parent_captures)
                        /\ Len(Children[child_pos + 1].projections)
                                < Len(parent_captures[parent_pos + 1].projections)
                  /\ failure' = "we ran out of parent captures!" =>
                        parent_pos = Len(parent_captures)
                  /\ failure' = "captured but not used in the child coroutine" =>
                        ~field_used_at_least_once]_vars
    /\ []NoChildLeftOut
    /\ [](pc = "matching" /\ child_pos < Len(Children) /\ parent_captures = <<>>
            => UnmatchableChild)

\* The child list has the captures of the parent list in the other order, and the
\* pass has ended at the first child capture, the first parent capture unused
C27_Witness ==
    /\ Len(parent_captures) = 2
    /\ Len(Children) = 2
    /\ Refines(parent_captures[1], Children[2])
    /\ Refines(parent_captures[2], Children[1])
    /\ ~Refines(parent_captures[1], Children[1])
    /\ pc = "bug"
    /\ failure = "captured but not used in the child coroutine"
    /\ child_pos = 0
    /\ field_remapping = EmptyMap

\* C28: after any sequence of runs of run_pass on an eligible body, a second run on
\* a body that already has a by-move body included, the by-move body stored in the
\* body has no by-move body of its own.
C28_NoNestedByMoveBody ==
    body.by_move_body # None => body.by_move_body.by_move_body = None

====
